---- MODULE Spec2Model ----
(***************************************************************************)
(* A model of mxmldoc.c: the documentation tree (sort_node, find_public,   *)
(* add_variable, update_comment) and the source scanner scan_file.         *)
(*                                                                         *)
(* A C string is a sequence of one-character strings.  The tree is an      *)
(* arena: nodes[i] is the node with handle i, handle 0 is the NULL         *)
(* pointer.  An element node keeps its attributes in attrs (a function     *)
(* whose domain is the set of attributes that are set), its element        *)
(* children in children and its text children in texts; mxmldoc never      *)
(* mixes the two under one element.                                        *)
(***************************************************************************)
EXTENDS Integers, Sequences, FiniteSets, TLC

VARIABLES
  nodes,    \* the arena of mxml_node_t
  stack,    \* the active scan_file invocations, innermost last
  input,    \* the characters of the file being scanned (FILE *fp)
  pos,      \* index of the next character getc(fp) returns
  call      \* the last tree operation called directly, with its result

vars == <<nodes, stack, input, pos, call>>

----------------------------------------------------------------------------
(* C strings and <ctype.h>                                                 *)

RECURSIVE Chars(_, _)
Chars(s, i) == IF i > Len(s) THEN <<>> ELSE <<SubSeq(s, i, i)>> \o Chars(s, i + 1)

Str(s) == Chars(s, 1)

NULL == 0

\* the printable characters 32..95 and 97..126 in code order
AsciiLow == Str(" !\"#$%&'()*+,-./0123456789:;<=>?@ABCDEFGHIJKLMNOPQRSTUVWXYZ[\\]^_")

AsciiHigh == Str("abcdefghijklmnopqrstuvwxyz{|}~")

\* the code of a character, as strcmp compares it
Ord(c) ==
  IF c = "\n" THEN 10
  ELSE IF c = "\t" THEN 9
  ELSE IF \E i \in 1..Len(AsciiLow) : AsciiLow[i] = c
       THEN 31 + (CHOOSE i \in 1..Len(AsciiLow) : AsciiLow[i] = c)
  ELSE 96 + (CHOOSE i \in 1..Len(AsciiHigh) : AsciiHigh[i] = c)

DigitChars == {AsciiLow[i] : i \in 17..26}

AlphaChars == {AsciiLow[i] : i \in 34..59} \cup {AsciiHigh[i] : i \in 1..26}

IsDigit(c) == c \in DigitChars

IsAlpha(c) == c \in AlphaChars

IsAlnum(c) == IsAlpha(c) \/ IsDigit(c)

IsSpace(c) == c \in {" ", "\n", "\t"}

\* strcmp(a, b) < 0: bytes compared as unsigned char, a proper prefix is smaller
StrLess(a, b) ==
  \E i \in 1..Len(b) :
    /\ i <= Len(a) + 1
    /\ \A j \in 1..(i - 1) : a[j] = b[j]
    /\ (i = Len(a) + 1 \/ Ord(a[i]) < Ord(b[i]))

\* strstr(hay, needle) != NULL
StrStr(hay, needle) ==
  \E i \in 0..(Len(hay) - Len(needle)) :
    \A j \in 1..Len(needle) : hay[i + j] = needle[j]

\* the first character of a C string; the terminating NUL (written as the empty
\* string) when the C string is empty
FirstChar(s) == IF Len(s) = 0 THEN "" ELSE s[1]

K_private_tag == Str("@private@")

----------------------------------------------------------------------------
(* The mxml tree primitives mxmldoc.c is written against                   *)

Node(elem) ==
  [elem |-> elem, attrs |-> <<>>, parent |-> NULL, children |-> <<>>,
   texts |-> <<>>, freed |-> FALSE]

Text(ws, s) == [whitespace |-> ws, string |-> s]

HasAttr(N, n, a) == a \in DOMAIN N[n].attrs

GetAttr(N, n, a) == N[n].attrs[a]

\* mxmlElementSetAttr
SetAttr(N, n, a, v) ==
  [N EXCEPT ![n].attrs =
     [k \in (DOMAIN N[n].attrs) \cup {a} |-> IF k = a THEN v ELSE N[n].attrs[k]]]

IndexOf(seq, x) == CHOOSE i \in 1..Len(seq) : seq[i] = x

RemoveAt(seq, i) == SubSeq(seq, 1, i - 1) \o SubSeq(seq, i + 1, Len(seq))

InsertAt(seq, i, x) == SubSeq(seq, 1, i - 1) \o <<x>> \o SubSeq(seq, i, Len(seq))

\* mxmlRemove: unlink a node from its parent
Remove(N, n) ==
  IF N[n].parent = NULL THEN N
  ELSE LET p == N[n].parent
       IN  [N EXCEPT ![p].children = RemoveAt(@, IndexOf(@, n)),
                     ![n].parent = NULL]

\* mxmlAdd(parent, MXML_ADD_AFTER, MXML_ADD_TO_PARENT, node); a NULL node is ignored
AddLast(N, p, n) ==
  IF p = NULL \/ n = NULL THEN N
  ELSE LET N1 == Remove(N, n)
       IN  [N1 EXCEPT ![p].children = Append(@, n), ![n].parent = p]

\* mxmlAdd(parent, MXML_ADD_BEFORE, MXML_ADD_TO_PARENT, node)
AddFirst(N, p, n) ==
  IF p = NULL \/ n = NULL THEN N
  ELSE LET N1 == Remove(N, n)
       IN  [N1 EXCEPT ![p].children = <<n>> \o @, ![n].parent = p]

\* mxmlAdd(parent, MXML_ADD_BEFORE, child, node)
AddBefore(N, p, child, n) ==
  IF p = NULL \/ n = NULL THEN N
  ELSE LET N1 == Remove(N, n)
       IN  [N1 EXCEPT ![p].children = InsertAt(@, IndexOf(@, child), n),
                      ![n].parent = p]

\* mxmlNewElement(parent, name): the new node's handle is Len(N) + 1
NewElement(N, p, elem) == AddLast(Append(N, Node(elem)), p, Len(N) + 1)

\* mxmlNewText(parent, whitespace, string)
NewText(N, p, ws, s) == [N EXCEPT ![p].texts = Append(@, Text(ws, s))]

RECURSIVE Descendants(_, _)
Descendants(N, n) ==
  {n} \cup UNION {Descendants(N, N[n].children[i]) : i \in 1..Len(N[n].children)}

RECURSIVE MarkFreed(_, _, _)
MarkFreed(N, D, i) ==
  IF i > Len(N) THEN N
  ELSE MarkFreed(IF i \in D THEN [N EXCEPT ![i].freed = TRUE] ELSE N, D, i + 1)

\* mxmlDelete: unlink the node and free it with everything below it
Delete(N, n) ==
  IF n = NULL THEN N
  ELSE LET N1 == Remove(N, n)
           D  == Descendants(N1, n)
       IN  MarkFreed(N1, D, 1)

NextSibling(N, n) ==
  IF N[n].parent = NULL THEN NULL
  ELSE LET sibs == N[N[n].parent].children
           i    == IndexOf(sibs, n)
       IN  IF i < Len(sibs) THEN sibs[i + 1] ELSE NULL

RECURSIVE ClimbNext(_, _, _)
ClimbNext(N, n, top) ==
  IF NextSibling(N, n) # NULL THEN NextSibling(N, n)
  ELSE IF N[n].parent = top \/ N[n].parent = NULL THEN NULL
  ELSE ClimbNext(N, N[n].parent, top)

\* mxmlWalkNext(node, top, descend)
WalkNext(N, n, top, descend) ==
  IF n = NULL THEN NULL
  ELSE IF Len(N[n].children) > 0 /\ descend THEN N[n].children[1]
  ELSE IF n = top THEN NULL
  ELSE IF NextSibling(N, n) # NULL THEN NextSibling(N, n)
  ELSE IF N[n].parent # NULL /\ N[n].parent # top THEN ClimbNext(N, N[n].parent, top)
  ELSE NULL

\* the test mxmlFindElement applies to each node it walks over; element is never
\* NULL in mxmldoc.c, value is <<>> for a NULL name and <<s>> for the name s
Matches(N, n, element, value) ==
  /\ N[n].elem = element
  /\ value # <<>> => (HasAttr(N, n, "name") /\ GetAttr(N, n, "name") = value[1])

RECURSIVE FindFrom(_, _, _, _, _)
FindFrom(N, n, top, element, value) ==
  IF n = NULL THEN NULL
  ELSE IF Matches(N, n, element, value) THEN n
  ELSE FindFrom(N, NextSibling(N, n), top, element, value)

\* mxmlFindElement(node, top, element, value ? "name" : NULL, value, descend) with
\* descend MXML_DESCEND_FIRST (TRUE) or MXML_NO_DESCEND (FALSE)
FindElement(N, n, top, element, value, descend) ==
  IF n = NULL \/ top = NULL THEN NULL
  ELSE FindFrom(N, WalkNext(N, n, top, descend), top, element, value)

----------------------------------------------------------------------------
(* sort_node                                                               *)

\* the range check and the name checks that make sort_node return at once
SortRejects_any_name(N, tree, node) ==
  \/ tree = NULL \/ node = NULL
  \/ N[node].parent = tree
  \/ ~HasAttr(N, node, "name")

SortRejects(N, tree, node) ==
  \/ tree = NULL \/ node = NULL
  \/ N[node].parent = tree
  \/ ~HasAttr(N, node, "name")
  \/ FirstChar(GetAttr(N, node, "name")) = "_"

\* "Delete any existing definition at this level", copying its scope if needed
SortReplace_keep_old(N, tree, node) ==
  LET temp == FindElement(N, tree, tree, N[node].elem, <<GetAttr(N, node, "name")>>, TRUE)
  IN  IF temp = NULL THEN N
      ELSE IF HasAttr(N, temp, "scope") /\ ~HasAttr(N, node, "scope")
           THEN SetAttr(N, node, "scope", GetAttr(N, temp, "scope"))
           ELSE N

SortReplace_no_scope(N, tree, node) ==
  LET temp == FindElement(N, tree, tree, N[node].elem, <<GetAttr(N, node, "name")>>, TRUE)
  IN  IF temp = NULL THEN N ELSE Delete(N, temp)

SortReplace(N, tree, node) ==
  LET temp == FindElement(N, tree, tree, N[node].elem, <<GetAttr(N, node, "name")>>, TRUE)
  IN  IF temp = NULL THEN N
      ELSE IF HasAttr(N, temp, "scope") /\ ~HasAttr(N, node, "scope")
           THEN Delete(SetAttr(N, node, "scope", GetAttr(N, temp, "scope")), temp)
           ELSE Delete(N, temp)

\* the loop over tree->child: the first child that has a name and whose name
\* compares greater than nodename, NULL when the loop runs off the end
SortBefore(N, tree, node) ==
  LET kids == N[tree].children
      nodename == GetAttr(N, node, "name")
      after == {i \in 1..Len(kids) :
                  /\ HasAttr(N, kids[i], "name")
                  /\ StrLess(nodename, GetAttr(N, kids[i], "name"))}
  IN  IF after = {} THEN NULL
      ELSE kids[CHOOSE i \in after : \A j \in after : i <= j]

\* "Add the node into the tree at the proper place"
SortPlace_append(N, tree, node) == AddLast(N, tree, node)

SortPlace(N, tree, node) ==
  LET temp == SortBefore(N, tree, node)
  IN  IF temp # NULL THEN AddBefore(N, tree, temp, node)
      ELSE AddLast(N, tree, node)

sort_node(N, tree, node) ==
  IF SortRejects(N, tree, node) THEN N
  ELSE SortPlace(SortReplace(N, tree, node), tree, node)

----------------------------------------------------------------------------
(* find_public                                                             *)

\* "Look for @private@ in the comment text"
HasPrivateText(N, description) ==
  \E i \in 1..Len(N[description].texts) :
    StrStr(N[description].texts[i].string, K_private_tag)

\* the body of the for loop: TRUE when the candidate is returned
IsPublic_no_text_check(N, node) ==
  FindElement(N, node, node, "description", <<>>, TRUE) # NULL

IsPublic(N, node) ==
  LET description == FindElement(N, node, node, "description", <<>>, TRUE)
  IN  description # NULL /\ ~HasPrivateText(N, description)

RECURSIVE FindPublicFrom(_, _, _, _, _)
FindPublicFrom(N, node, top, element, name) ==
  IF node = NULL THEN NULL
  ELSE IF IsPublic(N, node) THEN node
  ELSE FindPublicFrom(N, FindElement(N, node, top, element, name, FALSE),
                      top, element, name)

\* name is <<>> for NULL and <<s>> for the name s
find_public(N, node, top, element, name) ==
  FindPublicFrom(N, FindElement(N, node, top, element, name, node = top),
                 top, element, name)

----------------------------------------------------------------------------
(* add_variable                                                            *)

\* the copy loops of add_variable and scan_file: the fragments from index i on,
\* each preceded by a blank when its whitespace flag is set and it is not first
RECURSIVE JoinTexts(_, _, _)
JoinTexts(texts, i, acc) ==
  IF i > Len(texts) THEN acc
  ELSE JoinTexts(texts, i + 1,
                 acc \o (IF texts[i].whitespace /\ Len(acc) > 0 THEN <<" ">> ELSE <<>>)
                     \o texts[i].string)

\* the first of a set of fragment positions, 0 for none
FirstIndex(S) == IF S = {} THEN 0 ELSE CHOOSE i \in S : \A j \in S : i <= j

\* the positions of the fragments that are "="
IsEquals(texts) == {i \in 1..Len(texts) : texts[i].string = <<"=">>}

\* the positions of the fragments that begin with "("
StartsWithOpenParen(texts) == {i \in 1..Len(texts) : FirstChar(texts[i].string) = "("}

\* add_variable returns NULL without creating anything for a missing or empty type
AddVariableIsNull(N, type) == type = NULL \/ N[type].texts = <<>>

\* the type fragments left once the default value (from the first "=") is cut off
TypeWithoutDefault_nothing_left(texts) ==
  IF FirstIndex(IsEquals(texts)) = 0 THEN texts ELSE <<>>

TypeWithoutDefault(texts) ==
  LET eq == FirstIndex(IsEquals(texts))
  IN  IF eq = 0 THEN texts ELSE SubSeq(texts, 1, eq - 1)

\* add_variable reads type->last_child->value.text.string after the cut: with no
\* fragment left that is a read through a NULL pointer; with a last fragment that
\* begins with ")", no fragment that begins with "(" and no default value, the
\* name is read from a buffer nothing was written to
AddVariableFaults(N, type) ==
  /\ ~AddVariableIsNull(N, type)
  /\ LET texts == N[type].texts
         rest  == TypeWithoutDefault(texts)
     IN  \/ rest = <<>>
         \/ /\ FirstChar(rest[Len(rest)].string) = ")"
            /\ StartsWithOpenParen(rest) = {}
            /\ IsEquals(texts) = {}

\* where the name starts among the fragments left: at the first fragment that
\* begins with "(" for "type (*name)(args)", at the last fragment otherwise
NameStart(rest) ==
  IF FirstChar(rest[Len(rest)].string) = ")"
  THEN (IF FirstIndex(StartsWithOpenParen(rest)) = 0 THEN Len(rest) + 1
        ELSE FirstIndex(StartsWithOpenParen(rest)))
  ELSE Len(rest)

\* the name add_variable builds in buffer: the joined fragments for the function
\* pointer form (buffer keeps the string of the default value when no "(" is
\* found; without a default value add_variable faults), else the last
VariableName(texts) ==
  LET rest == TypeWithoutDefault(texts)
      eq   == FirstIndex(IsEquals(texts))
      from == NameStart(rest)
  IN  IF FirstChar(rest[Len(rest)].string) = ")"
      THEN (IF from > Len(rest)
            THEN (IF eq = 0 THEN <<>> ELSE JoinTexts(texts, eq, <<>>))
            ELSE JoinTexts(rest, from, <<>>))
      ELSE rest[Len(rest)].string

\* add_variable(parent, name, type) when it does not return NULL; the new node's
\* handle is Len(N) + 1
add_variable(N, parent, name, type) ==
  LET variable == Len(N) + 1
      texts == N[type].texts
      eq    == FirstIndex(IsEquals(texts))
      rest  == TypeWithoutDefault(texts)
      N1    == NewElement(N, parent, name)
      N2    == IF eq = 0 THEN N1
               ELSE SetAttr(N1, variable, "default", JoinTexts(texts, eq, <<>>))
      N3    == SetAttr(N2, variable, "name", VariableName(texts))
      N4    == [N3 EXCEPT ![type].texts = SubSeq(rest, 1, NameStart(rest) - 1)]
  IN  AddLast(N4, variable, type)

----------------------------------------------------------------------------
(* update_comment                                                          *)

SpaceChars == {" ", "\n", "\t"}

\* the index reached from i by a loop "while (*ptr is in C) ptr ++"
RECURSIVE SkipWhile(_, _, _)
SkipWhile(s, i, C) ==
  IF i <= Len(s) /\ s[i] \in C THEN SkipWhile(s, i + 1, C) ELSE i

\* the index reached from i by a loop "while (*ptr && *ptr != c) ptr ++"
RECURSIVE SkipUntil(_, _, _)
SkipUntil(s, i, c) ==
  IF i <= Len(s) /\ s[i] # c THEN SkipUntil(s, i + 1, c) ELSE i

\* the index reached from i by a loop "while (ptr > string && *ptr is in C) ptr --"
RECURSIVE SkipBack(_, _, _)
SkipBack(s, i, C) ==
  IF i > 1 /\ s[i] \in C THEN SkipBack(s, i - 1, C) ELSE i

From(s, i) == SubSeq(s, i, Len(s))

HasPrefix(s, p) == Len(s) >= Len(p) /\ SubSeq(s, 1, Len(p)) = p

\* Convert "\/" to "/"
RECURSIVE UnescapeSlashes(_, _)
UnescapeSlashes(s, i) ==
  IF i >= Len(s) THEN s
  ELSE IF s[i] = "\\" /\ s[i + 1] = "/" THEN UnescapeSlashes(RemoveAt(s, i), i)
  ELSE UnescapeSlashes(s, i + 1)

\* skip whitespace, one "-", and whitespace again
AfterDash(s, i) ==
  LET j == SkipWhile(s, i, SpaceChars)
      k == IF j <= Len(s) /\ s[j] = "-" THEN j + 1 ELSE j
  IN  SkipWhile(s, k, SpaceChars)

\* Convert "'name()' - description" to "description"
StripSignature(s) ==
  LET q == SkipUntil(s, 2, "'")
  IN  IF q <= Len(s) THEN From(s, AfterDash(s, q + 1)) ELSE s

HasDirection(s) ==
  HasPrefix(s, Str("I ")) \/ HasPrefix(s, Str("O ")) \/ HasPrefix(s, Str("IO "))

\* the text before the first blank: the direction attribute value
DirectionOf(s) == SubSeq(s, 1, SkipUntil(s, 1, " ") - 1)

StripDirection(s) == From(s, AfterDash(s, SkipUntil(s, 1, " ") + 1))

\* Eliminate leading and trailing *'s
StripStars(s) ==
  LET lead == From(s, SkipWhile(s, SkipWhile(s, 1, {"*"}), SpaceChars))
      e1   == SkipBack(lead, Len(lead), {"*"})
      e2   == SkipBack(lead, e1, SpaceChars)
  IN  SubSeq(lead, 1, e2)

\* the comment string as update_comment leaves it
UpdatedText(s) ==
  LET s1 == UnescapeSlashes(s, 1)
      s2 == IF FirstChar(s1) = "'" THEN StripSignature(s1)
            ELSE IF HasDirection(s1) THEN StripDirection(s1)
            ELSE s1
  IN  StripStars(s2)

\* update_comment with the direction set on a parent of any kind
update_comment_any_parent(N, parent, holder) ==
  IF parent = NULL \/ N[holder].texts = <<>> THEN N
  ELSE
    LET last == Len(N[holder].texts)
        s1   == UnescapeSlashes(N[holder].texts[last].string, 1)
        N1   == IF FirstChar(s1) # "'" /\ HasDirection(s1)
                THEN SetAttr(N, parent, "direction", DirectionOf(s1))
                ELSE N
    IN  [N1 EXCEPT ![holder].texts[last].string = UpdatedText(@)]

\* update_comment(parent, comment) where comment is the last text child of holder
\* (comment->last_child, or the text just created under a description); a holder
\* without text children stands for a NULL comment
update_comment(N, parent, holder) ==
  IF parent = NULL \/ N[holder].texts = <<>> THEN N
  ELSE
    LET last == Len(N[holder].texts)
        s1   == UnescapeSlashes(N[holder].texts[last].string, 1)
        N1   == IF FirstChar(s1) # "'" /\ HasDirection(s1) /\ N[parent].elem = "argument"
                THEN SetAttr(N, parent, "direction", DirectionOf(s1))
                ELSE N
    IN  [N1 EXCEPT ![holder].texts[last].string = UpdatedText(@)]

----------------------------------------------------------------------------
(* The variable definition of scan_file, shared with the tree specification *)

\* "Variable definition": add_variable(MXML_NO_PARENT, "variable", type), then
\* sort_node(tree, variable), then the active scope (<<>> for NULL) is set
DefineVariable(N, tree, type, scope) ==
  LET variable == Len(N) + 1
      N1 == sort_node(add_variable(N, NULL, "variable", type), tree, variable)
  IN  IF scope # <<>> THEN SetAttr(N1, variable, "scope", scope[1]) ELSE N1

----------------------------------------------------------------------------
(* The tree operations on their own: a root that receives sort_node calls  *)
(* and is queried with find_public                                         *)

MaxNodes == 5

Root == 1

NoCall ==
  [op |-> "none", node |-> NULL, kids |-> <<>>, scope |-> <<>>,
   element |-> "", name |-> <<>>, result |-> NULL, eof |-> FALSE,
   unclosed |-> FALSE, exited |-> FALSE, status |-> 0, written |-> FALSE]

\* a root element with the given children, each [elem, attrs]
RECURSIVE AddKids(_, _, _)
AddKids(N, kids, i) ==
  IF i > Len(kids) THEN N
  ELSE AddKids([NewElement(N, Root, kids[i].elem) EXCEPT ![Len(N) + 1].attrs = kids[i].attrs],
               kids, i + 1)

MakeTree(elem, kids) == AddKids(<<Node(elem)>>, kids, 1)

\* the trees a run starts from: a new document, a class with its description,
\* and a loaded document whose children are not in name order
InitialTrees ==
  { MakeTree("mxmldoc", <<>>),
    MakeTree("class", <<[elem |-> "description", attrs |-> <<>>],
                        [elem |-> "function", attrs |-> [name |-> Str("b"), scope |-> Str("public")]]>>),
    MakeTree("mxmldoc", <<[elem |-> "variable", attrs |-> [name |-> Str("b"), scope |-> Str("private")]],
                          [elem |-> "function", attrs |-> [name |-> Str("a")]]>>) }

\* the nodes handed to sort_node: element, name (<<>> for none), scope (<<>> for none)
SortInputs ==
  { [elem |-> "function", name |-> <<Str("a")>>,  scope |-> <<>>],
    [elem |-> "function", name |-> <<Str("b")>>,  scope |-> <<>>],
    [elem |-> "function", name |-> <<Str("b")>>,  scope |-> <<Str("private")>>],
    [elem |-> "function", name |-> <<Str("B")>>,  scope |-> <<>>],
    [elem |-> "variable", name |-> <<Str("ab")>>, scope |-> <<>>],
    [elem |-> "function", name |-> <<Str("_a")>>, scope |-> <<>>],
    [elem |-> "typedef",  name |-> <<>>,          scope |-> <<>>] }

VariableInputs ==
  { [name |-> Str("b"),  scope |-> <<>>],
    [name |-> Str("b"),  scope |-> <<Str("public")>>] }

DescriptionTexts == { <<>>, <<Str("Text.")>>, <<Str("Gone @private@")>> }

InitTree ==
  /\ nodes \in InitialTrees
  /\ stack = <<>>
  /\ input = <<>>
  /\ pos = 1
  /\ call = NoCall

\* a new element with the input's attributes, handed to sort_node
SortNew ==
  \E in \in SortInputs :
    /\ Len(nodes) < MaxNodes
    /\ LET node == Len(nodes) + 1
           N1 == NewElement(nodes, NULL, in.elem)
           N2 == IF in.name # <<>> THEN SetAttr(N1, node, "name", in.name[1]) ELSE N1
           N3 == IF in.scope # <<>> THEN SetAttr(N2, node, "scope", in.scope[1]) ELSE N2
       IN  /\ nodes' = sort_node(N3, Root, node)
           /\ call' = [NoCall EXCEPT !.op = "sort_node", !.node = node,
                                     !.kids = nodes[Root].children, !.scope = in.scope]
    /\ UNCHANGED <<stack, input, pos>>

\* sort_node called again with a node that is already a child of the tree
SortAgain ==
  \E node \in {nodes[Root].children[i] : i \in 1..Len(nodes[Root].children)} :
    /\ call.op # "sort_again"
    /\ nodes' = sort_node(nodes, Root, node)
    /\ call' = [NoCall EXCEPT !.op = "sort_again", !.node = node,
                              !.kids = nodes[Root].children]
    /\ UNCHANGED <<stack, input, pos>>

\* a variable "int <name>;" defined under the active scope
SortVariable ==
  \E in \in VariableInputs :
    /\ Len(nodes) + 1 < MaxNodes
    /\ LET type == Len(nodes) + 1
           N1 == NewText(NewText(NewElement(nodes, NULL, "type"), type, FALSE, Str("int")),
                         type, TRUE, in.name)
       IN  /\ nodes' = DefineVariable(N1, Root, type, in.scope)
           /\ call' = [NoCall EXCEPT !.op = "define_variable", !.node = type + 1,
                                     !.kids = nodes[Root].children, !.scope = in.scope]
    /\ UNCHANGED <<stack, input, pos>>

NextTree == SortNew \/ SortAgain \/ SortVariable

SpecTree == InitTree /\ [][NextTree]_vars

----------------------------------------------------------------------------
(* find_public on its own: declarations that receive descriptions and are  *)
(* walked the way the writers walk them                                     *)

MaxDescriptions == 2

\* a document with functions and a variable, two of them of one name
DescribedTree ==
  MakeTree("mxmldoc", <<[elem |-> "function", attrs |-> [name |-> Str("a")]],
                        [elem |-> "variable", attrs |-> [name |-> Str("b")]],
                        [elem |-> "function", attrs |-> [name |-> Str("b")]],
                        [elem |-> "function", attrs |-> [name |-> Str("b")]]>>)

InitFind ==
  /\ nodes = DescribedTree
  /\ stack = <<>>
  /\ input = <<>>
  /\ pos = 1
  /\ call = NoCall

DescriptionsOf(N, n) ==
  {i \in 1..Len(N[n].children) : N[N[n].children[i]].elem = "description"}

\* a description element, with or without text, added to a child of the root
Describe ==
  \E i \in 1..Len(nodes[Root].children), text \in DescriptionTexts :
    LET n == nodes[Root].children[i]
        d == Len(nodes) + 1
        N1 == NewElement(nodes, n, "description")
    IN  /\ Len(nodes) < Len(DescribedTree) + MaxDescriptions
        /\ Cardinality(DescriptionsOf(nodes, n)) < 2
        /\ nodes' = (IF text = <<>> THEN N1 ELSE NewText(N1, d, FALSE, text[1]))
        /\ call' = [NoCall EXCEPT !.op = "describe", !.node = n]
        /\ UNCHANGED <<stack, input, pos>>

\* find_public as the writers call it: from the top, or from a node found before
FindPublic ==
  \E cursor \in {Root} \cup {nodes[Root].children[i] : i \in 1..Len(nodes[Root].children)},
     element \in {"function", "variable"},
     name \in {<<>>, <<Str("b")>>} :
    /\ call' = [NoCall EXCEPT !.op = "find_public", !.node = cursor,
                              !.element = element, !.name = name,
                              !.result = find_public(nodes, cursor, Root, element, name)]
    /\ UNCHANGED <<nodes, stack, input, pos>>

NextFind == Describe \/ FindPublic

SpecFind == InitFind /\ [][NextFind]_vars

----------------------------------------------------------------------------
(* Claims about the tree operations                                        *)

Kids == nodes[Root].children

KidSet(kids) == {kids[i] : i \in 1..Len(kids)}

NameOf(n) == GetAttr(nodes, n, "name")

\* two nodes of one element kind that both carry the same name
SameDeclaration(a, b) ==
  /\ nodes[a].elem = nodes[b].elem
  /\ HasAttr(nodes, a, "name") /\ HasAttr(nodes, b, "name")
  /\ NameOf(a) = NameOf(b)

NoDuplicates(kids) ==
  \A i, j \in 1..Len(kids) : i < j => ~SameDeclaration(kids[i], kids[j])

\* the last call was a sort_node insertion of a new node that sort_node accepts
Inserted ==
  /\ call.op \in {"sort_node", "define_variable"}
  /\ HasAttr(nodes, call.node, "name")
  /\ FirstChar(NameOf(call.node)) # "_"

\* the children the inserted node replaced
Replaced == {k \in KidSet(call.kids) : SameDeclaration(k, call.node)}

\* C1: after any sequence of sort_node insertions into a root that starts without
\* two same-kind children of one name, no two children have the same kind and
\* name; an insertion that matches an existing child frees that child and leaves
\* the new node as the only child of that kind and name.
C1_UniquePerKind ==
  /\ NoDuplicates(Kids)
  /\ Inserted =>
       /\ nodes[call.node].parent = Root
       /\ {k \in KidSet(Kids) : SameDeclaration(k, call.node)} = {call.node}
       /\ \A k \in Replaced : nodes[k].freed /\ k \notin KidSet(Kids)

C1_Witness == Inserted /\ Replaced # {} /\ Len(Kids) >= 2

\* C2: when sort_node replaces a same-kind, same-name node that has a scope, the
\* new node gets that scope if it has none of its own and keeps its own scope
\* otherwise; a variable defined while no visibility is active keeps the scope
\* of the definition it replaces.
C2_ScopeCarried ==
  \A k \in Replaced :
    (Inserted /\ HasAttr(nodes, k, "scope")) =>
      /\ HasAttr(nodes, call.node, "scope")
      /\ GetAttr(nodes, call.node, "scope") =
           (IF call.scope # <<>> THEN call.scope[1] ELSE GetAttr(nodes, k, "scope"))

C2_Witness ==
  /\ Inserted /\ call.op = "define_variable" /\ call.scope = <<>>
  /\ \E k \in Replaced : HasAttr(nodes, k, "scope")
  /\ HasAttr(nodes, call.node, "scope")

NamedAfter(kids, n) ==
  {j \in 1..Len(kids) :
     /\ kids[j] # n
     /\ HasAttr(nodes, kids[j], "name")
     /\ StrLess(NameOf(n), NameOf(kids[j]))}

\* the children that have a name are in non-decreasing byte order of name
NamesInOrder(kids) ==
  \A i, j \in 1..Len(kids) :
    (i < j /\ HasAttr(nodes, kids[i], "name") /\ HasAttr(nodes, kids[j], "name"))
      => ~StrLess(NameOf(kids[j]), NameOf(kids[i]))

\* C4: sort_node puts the new node immediately before the first child whose name
\* is strictly greater in byte order, or last when there is none; children that
\* were in non-decreasing name order before a call are in that order after it.
C4_SortedPlacement ==
  /\ Inserted =>
       LET i == IndexOf(Kids, call.node)
           after == NamedAfter(Kids, call.node)
       IN  IF after = {} THEN i = Len(Kids)
           ELSE i + 1 = CHOOSE j \in after : \A m \in after : j <= m
  /\ (call.op # "none" /\ NamesInOrder(call.kids)) => NamesInOrder(Kids)

C4_Witness ==
  /\ Inserted
  /\ 1 < IndexOf(Kids, call.node) /\ IndexOf(Kids, call.node) < Len(Kids)
  /\ NamesInOrder(call.kids)
  /\ \E k \in KidSet(Kids) : HasAttr(nodes, k, "name") /\ StrLess(NameOf(k), Str("a"))

\* the description of a node as mxmldoc looks it up: its first description child
FirstDescription(n) ==
  LET ds == DescriptionsOf(nodes, n)
  IN  IF ds = {} THEN NULL
      ELSE nodes[n].children[CHOOSE i \in ds : \A j \in ds : i <= j]

\* a described node none of whose description text contains @private@
PassesPublicTest(n) ==
  /\ FirstDescription(n) # NULL
  /\ \A i \in 1..Len(nodes[FirstDescription(n)].texts) :
       ~StrStr(nodes[FirstDescription(n)].texts[i].string, Str("@private@"))

\* the children after the cursor (all of them when the cursor is the top) of the
\* requested element and, if one is given, name
CandidatesAfter(cursor, element, name) ==
  {i \in 1..Len(Kids) :
     /\ cursor # Root => i > IndexOf(Kids, cursor)
     /\ nodes[Kids[i]].elem = element
     /\ name # <<>> => (HasAttr(nodes, Kids[i], "name") /\ NameOf(Kids[i]) = name[1])}

----------------------------------------------------------------------------
(* scan_file: the scanner state, one frame per active invocation           *)

\* sizeof(buffer) of scan_file, 65536 in the source, scaled down
BufSize == 32

\* what getc returns at end of input, and the byte a stored EOF becomes
EOF == "EOF"

Getc(p) == IF p <= Len(input) THEN input[p] ELSE EOF

\* the position after ungetc(ch): ungetc(EOF) does nothing
Ungetc_before_identifier(p, ch) == IF ch = EOF THEN p ELSE p - 2

Ungetc(p, ch) == IF ch = EOF THEN p ELSE p - 1

\* "Initialize the finite state machine": the locals of a new invocation whose
\* comment holder is the node comment
NewFrame(N, tree, comment) ==
  [state |-> "NONE", braces |-> 0, parens |-> 0, buffer |-> <<>>,
   scope |-> IF N[tree].elem = "class" THEN <<Str("private")>> ELSE <<>>,
   comment |-> comment, constant |-> NULL, enumeration |-> NULL, function |-> NULL,
   fstructclass |-> NULL, structclass |-> NULL, typedefnode |-> NULL,
   variable |-> NULL, type |-> NULL, tree |-> tree,
   pc |-> "run", ret |-> 0, eof |-> FALSE]

\* the outcome of one handler: the arena, the frame and the read position
Out(N, f, p) == [N |-> N, f |-> f, pos |-> p]

\* a read through a NULL pointer, a write past the end of buffer or a read of
\* freed memory that stops the program
Fault(N, f, p) == Out(N, [f EXCEPT !.pc = "fault"], p)

NTexts(N, n) == Len(N[n].texts)

\* node->child->value.text.string and node->last_child->value.text.string
FirstString(N, n) == N[n].texts[1].string

LastString(N, n) == N[n].texts[Len(N[n].texts)].string

\* mxmlDelete(node->child) for a text child
DeleteFirstText(N, n) == [N EXCEPT ![n].texts = Tail(@)]

DeleteTextAt(N, n, i) == [N EXCEPT ![n].texts = RemoveAt(@, i)]

\* node->child->value.text.whitespace = 0
ClearWhitespace(N, n) ==
  IF N[n].texts = <<>> THEN N ELSE [N EXCEPT ![n].texts[1].whitespace = FALSE]

\* mxmlAdd(to, MXML_ADD_AFTER, MXML_ADD_TO_PARENT, from->last_child): nothing
\* happens when from has no child
MoveLastText(N, from, to) ==
  IF N[from].texts = <<>> THEN N
  ELSE [N EXCEPT ![to].texts = Append(@, N[from].texts[Len(N[from].texts)]),
                 ![from].texts = SubSeq(@, 1, Len(@) - 1)]

\* description = mxmlNewElement(parent, "description"); update_comment(parent,
\* comment->last_child); mxmlAdd(description, ..., comment->last_child)
DescribeFromComment(N, parent, comment) ==
  LET description == Len(N) + 1
  IN  MoveLastText(update_comment(NewElement(N, parent, "description"), parent, comment),
                   comment, description)

\* "Copy comment for typedef as well as class/struct/union"
DuplicateComment(N, typedefnode, comment) ==
  IF typedefnode # NULL /\ N[comment].texts # <<>>
  THEN DescribeFromComment(NewText(N, comment, FALSE, LastString(N, comment)),
                           typedefnode, comment)
  ELSE N

\* strlcpy into what is left of buffer
Truncate(s) == IF Len(s) > BufSize - 1 THEN SubSeq(s, 1, BufSize - 1) ELSE s

\* isalnum(ch) || ch == '_' for ch = type->last_child->value.text.string[0]
OperatorFlag(N, type) ==
  LET ch == FirstChar(LastString(N, type)) IN IsAlnum(ch) \/ ch = "_"

\* the whitespace flag of an identifier added to type
NameFlag(N, type) ==
  /\ N[type].texts # <<>>
  /\ FirstChar(LastString(N, type)) \notin {"(", "*"}

\* cases '/', '*', '+', '-', '=' of STATE_NONE when ch is added to type
NoneOperator(N, f, p, ch) ==
  IF f.type = NULL THEN Out(N, f, p)
  ELSE IF N[f.type].texts = <<>> THEN Fault(N, f, p)
  ELSE Out(NewText(N, f.type, OperatorFlag(N, f.type), <<ch>>), f, p)

\* case '/' of STATE_NONE: "Possible C/C++ comment"
NoneSlash(N, f0, p) ==
  LET ch == Getc(p)
      f  == [f0 EXCEPT !.buffer = <<>>]
  IN  IF ch = "*" THEN Out(N, [f EXCEPT !.state = "C_COMMENT"], p + 1)
      ELSE IF ch = "/" THEN Out(N, [f EXCEPT !.state = "CXX_COMMENT"], p + 1)
      ELSE NoneOperator(N, f, p, "/")

\* the test that starts a class or structure at '{'
IsAggregate(s) == s \in {Str("struct"), Str("union"), Str("class")}

StartsAggregate_plain(N, type) ==
  type # NULL /\ N[type].texts # <<>> /\ IsAggregate(FirstString(N, type))

StartsAggregate(N, type) ==
  /\ type # NULL /\ N[type].texts # <<>>
  /\ \/ /\ FirstString(N, type) = Str("typedef")
        /\ NTexts(N, type) >= 2
        /\ IsAggregate(N[type].texts[2].string)
     \/ IsAggregate(FirstString(N, type))

\* the test that starts an enumeration at '{'
StartsEnumeration(N, type) ==
  /\ type # NULL /\ NTexts(N, type) >= 2
  /\ \/ FirstString(N, type) = Str("enum")
     \/ /\ FirstString(N, type) = Str("typedef")
        /\ N[type].texts[2].string = Str("enum")

StartsExtern(N, type) ==
  type # NULL /\ N[type].texts # <<>> /\ FirstString(N, type) = Str("extern")

\* the element name mxmlNewElement gets from type->child->value.text.string
ElementName(s) ==
  CASE s = Str("struct") -> "struct"
    [] s = Str("union")  -> "union"
    [] s = Str("class")  -> "class"

\* the end of case '{': braces ++; function = NULL; variable = NULL
AfterOpenBrace(f) ==
  [f EXCEPT !.braces = @ + 1, !.function = NULL, !.variable = NULL]

\* "Start of a class or structure": up to the recursive call, which the frame
\* records by its pc
OpenAggregate(N, f, p) ==
  LET isTypedef   == FirstString(N, f.type) = Str("typedef")
      typedefnode == IF isTypedef THEN Len(N) + 1 ELSE NULL
      N1 == IF isTypedef
            THEN DeleteFirstText(NewElement(N, NULL, "typedef"), f.type)
            ELSE N
      structclass == Len(N1) + 1
      N2 == NewElement(N1, NULL, ElementName(FirstString(N1, f.type)))
      N3 == IF NTexts(N2, f.type) >= 2
            THEN sort_node(SetAttr(N2, structclass, "name", N2[f.type].texts[2].string),
                           f.tree, structclass)
            ELSE N2
      keep == typedefnode # NULL
      parent == Truncate(JoinTexts(N3[f.type].texts, 3, <<>>))
      N4 == IF keep THEN ClearWhitespace(N3, f.type)
            ELSE IF NTexts(N3, f.type) >= 3
                 THEN Delete(SetAttr(N3, structclass, "parent", parent), f.type)
                 ELSE Delete(N3, f.type)
      N5 == DuplicateComment(N4, typedefnode, f.comment)
      N6 == DescribeFromComment(N5, structclass, f.comment)
  IN  Out(N6,
          [f EXCEPT !.typedefnode = typedefnode, !.structclass = structclass,
                    !.type = IF keep THEN @ ELSE NULL,
                    !.buffer = IF ~keep /\ NTexts(N3, f.type) >= 3 THEN parent ELSE @,
                    !.pc = "struct"],
          p)

\* "Enumeration type"
OpenEnumeration(N, f, p) ==
  LET isTypedef   == FirstString(N, f.type) = Str("typedef")
      typedefnode == IF isTypedef THEN Len(N) + 1 ELSE NULL
      N1 == IF isTypedef
            THEN DeleteFirstText(NewElement(N, NULL, "typedef"), f.type)
            ELSE N
      enumeration == Len(N1) + 1
      N2 == NewElement(N1, NULL, "enumeration")
      N3 == IF NTexts(N2, f.type) >= 2
            THEN sort_node(SetAttr(N2, enumeration, "name", N2[f.type].texts[2].string),
                           f.tree, enumeration)
            ELSE N2
      keep == typedefnode # NULL
      N4 == IF keep THEN ClearWhitespace(N3, f.type) ELSE Delete(N3, f.type)
      N5 == DuplicateComment(N4, typedefnode, f.comment)
      N6 == DescribeFromComment(N5, enumeration, f.comment)
  IN  Out(N6,
          AfterOpenBrace([f EXCEPT !.typedefnode = typedefnode,
                                   !.enumeration = enumeration,
                                   !.type = IF keep THEN @ ELSE NULL]),
          p)

\* case '{' of STATE_NONE
NoneOpenBrace(N, f, p) ==
  IF f.function # NULL
  THEN Out(sort_node(N, IF f.fstructclass # NULL THEN f.fstructclass ELSE f.tree,
                     f.function),
           AfterOpenBrace([f EXCEPT !.fstructclass = NULL]), p)
  ELSE IF StartsAggregate(N, f.type) THEN OpenAggregate(N, f, p)
  ELSE IF StartsEnumeration(N, f.type) THEN OpenEnumeration(N, f, p)
  ELSE IF StartsExtern(N, f.type) THEN Out(N, [f EXCEPT !.pc = "extern"], p)
  ELSE IF f.type # NULL
       THEN Out(Delete(N, f.type), AfterOpenBrace([f EXCEPT !.type = NULL]), p)
  ELSE Out(N, AfterOpenBrace(f), p)

\* mxmlDelete(comment); return (ret)
Return(N, f, p, ret) ==
  Out(Delete(N, f.comment), [f EXCEPT !.pc = "return", !.ret = ret], p)

\* case '}' of STATE_NONE
NoneCloseBrace_always_decrements(N, f0, p) ==
  Out(N, [f0 EXCEPT !.braces = @ - 1, !.constant = NULL, !.structclass = NULL], p)

NoneCloseBrace(N, f0, p) ==
  LET f == [f0 EXCEPT !.scope = IF f0.structclass # NULL THEN <<>> ELSE @,
                      !.enumeration = IF f0.typedefnode = NULL THEN NULL ELSE @,
                      !.constant = NULL,
                      !.structclass = NULL]
  IN  IF f.braces > 0 THEN Out(N, [f EXCEPT !.braces = @ - 1], p)
      ELSE Return(N, f, p, 0)

\* case '(' of STATE_NONE
NoneOpenParen(N, f, p) ==
  Out(IF f.type # NULL THEN NewText(N, f.type, FALSE, <<"(">>) ELSE N,
      [f EXCEPT !.parens = @ + 1], p)

\* case ')' of STATE_NONE, with its "Check for void argument"
NoneCloseParen(N, f, p) ==
  LET N1 == IF f.type # NULL /\ f.parens # 0
            THEN NewText(N, f.type, FALSE, <<")">>) ELSE N
      f1 == [f EXCEPT !.parens = IF @ > 0 THEN @ - 1 ELSE @]
  IN  IF f.function # NULL /\ f.type # NULL /\ f.parens = 0
      THEN IF NTexts(N1, f.type) >= 2
           THEN IF AddVariableFaults(N1, f.type) THEN Fault(N1, f, p)
                ELSE Out(add_variable(N1, f.function, "argument", f.type),
                         [f1 EXCEPT !.variable = Len(N1) + 1, !.type = NULL], p)
           ELSE Out(Delete(N1, f.type), [f1 EXCEPT !.type = NULL], p)
      ELSE Out(N1, f1, p)

\* the index of the text that names a typedef found at ';': after "(" the first
\* text that is not "*", the last text when there is none
TypedefNameIndex(texts) ==
  LET opens == {i \in 2..Len(texts) : texts[i].string = <<"(">>}
      open  == IF opens = {} THEN 0 ELSE CHOOSE i \in opens : \A j \in opens : i <= j
      names == {i \in (open + 1)..Len(texts) : texts[i].string # <<"*">>}
  IN  IF open = 0 \/ names = {} THEN Len(texts)
      ELSE CHOOSE i \in names : \A j \in names : i <= j

\* "See if we have a typedef": "Yes, add it!"
SemicolonTypedef(N, f, p) ==
  LET typedefnode == Len(N) + 1
      node == TypedefNameIndex(N[f.type].texts)
      N1 == sort_node(SetAttr(NewElement(N, NULL, "typedef"), typedefnode, "name",
                              N[f.type].texts[node].string),
                      f.tree, typedefnode)
      N2 == IF node # 1 THEN DeleteTextAt(DeleteFirstText(N1, f.type), f.type, node - 1)
            ELSE DeleteFirstText(N1, f.type)
  IN  Out(AddLast(ClearWhitespace(N2, f.type), typedefnode, f.type),
          [f EXCEPT !.typedefnode = typedefnode, !.type = NULL], p)

\* "Add enum typedef"
SemicolonEnumTypedef(N, f, p) ==
  IF N[f.type].texts = <<>> THEN Fault(N, f, p)
  ELSE
    LET N1 == Delete(sort_node(SetAttr(N, f.typedefnode, "name", FirstString(N, f.type)),
                               f.tree, f.typedefnode),
                     f.type)
        type == Len(N1) + 1
        N2 == NewText(NewElement(N1, f.typedefnode, "type"), type, FALSE, Str("enum"))
        N3 == IF HasAttr(N2, f.enumeration, "name")
              THEN NewText(N2, type, TRUE, GetAttr(N2, f.enumeration, "name"))
              ELSE N2
    IN  Out(N3, [f EXCEPT !.enumeration = NULL, !.type = NULL], p)

\* a function that ends at ';' is kept when the scan root is a class
KeepsPrototype_always(N, tree) == TRUE

KeepsPrototype(N, tree) == N[tree].elem = "class"

\* case ';' of STATE_NONE
NoneSemicolon(N, f0, p) ==
  LET N1 == IF f0.function = NULL THEN N
            ELSE IF KeepsPrototype(N, f0.tree) THEN sort_node(N, f0.tree, f0.function)
            ELSE Delete(N, f0.function)
      f  == IF f0.function = NULL THEN f0
            ELSE [f0 EXCEPT !.function = NULL, !.variable = NULL]
  IN  IF f.type = NULL THEN Out(N1, f, p)
      ELSE IF N1[f.type].texts # <<>> /\ FirstString(N1, f.type) = Str("typedef")
           THEN SemicolonTypedef(N1, f, p)
      ELSE IF f.typedefnode # NULL /\ f.enumeration # NULL
           THEN SemicolonEnumTypedef(N1, f, p)
      ELSE Out(Delete(N1, f.type), [f EXCEPT !.type = NULL], p)

\* STATE_NONE: "No state - whitespace, etc."
StateNone(N, f, p, ch) ==
  CASE ch = "/"  -> NoneSlash(N, f, p)
    [] ch = "#"  -> Out(N, [f EXCEPT !.state = "PREPROCESSOR"], p)
    [] ch = "'"  -> Out(N, [f EXCEPT !.state = "CHARACTER", !.buffer = <<ch>>], p)
    [] ch = "\"" -> Out(N, [f EXCEPT !.state = "STRING", !.buffer = <<ch>>], p)
    [] ch = "{"  -> NoneOpenBrace(N, f, p)
    [] ch = "}"  -> NoneCloseBrace(N, f, p)
    [] ch = "("  -> NoneOpenParen(N, f, p)
    [] ch = ")"  -> NoneCloseParen(N, f, p)
    [] ch = ";"  -> NoneSemicolon(N, f, p)
    [] ch = ":"  -> Out(IF f.type # NULL THEN NewText(N, f.type, TRUE, <<":">>) ELSE N, f, p)
    [] ch \in {"*", "+", "-", "="} -> NoneOperator(N, f, p, ch)
    [] ch = ","  -> Out(IF f.type # NULL /\ f.enumeration = NULL
                        THEN NewText(N, f.type, FALSE, <<",">>) ELSE N, f, p)
    [] ch = "&"  -> Out(IF f.type # NULL THEN NewText(N, f.type, TRUE, <<"&">>) ELSE N, f, p)
    [] OTHER     ->
         IF IsAlnum(ch) \/ ch \in {"_", ".", "~"}
         THEN Out(N, [f EXCEPT !.state = "IDENTIFIER", !.buffer = <<ch>>], p)
         ELSE Out(N, f, p)

\* STATE_PREPROCESSOR
StatePreprocessor(N, f, p, ch) ==
  IF ch = "\n" THEN Out(N, [f EXCEPT !.state = "NONE"], p)
  ELSE IF ch = "\\" THEN Out(N, f, IF Getc(p) = EOF THEN p ELSE p + 1)
  ELSE Out(N, f, p)

\* bufptr < (buffer + sizeof(buffer) - 1)
HasRoom(buffer) == Len(buffer) < BufSize - 1

\* description = mxmlNewElement(parent, "description");
\* update_comment(parent, mxmlNewText(description, 0, buffer))
DescribeFromBuffer(N, parent, buffer) ==
  LET description == Len(N) + 1
  IN  update_comment(NewText(NewElement(N, parent, "description"), description, FALSE, buffer),
                     parent, description)

\* what the three comment states do with a finished comment held in buffer;
\* cxx tells the C++ comment state, which keeps a described typedefnode
AttachComment(N0, f, buffer, cxx) ==
  LET N == IF NTexts(N0, f.comment) >= 2 THEN DeleteFirstText(N0, f.comment) ELSE N0
      private == StrStr(buffer, K_private_tag)
      queued(M) == NewText(M, f.comment, FALSE, buffer)
  IN  IF f.variable # NULL
      THEN [N |-> IF private THEN Delete(N, f.variable)
                  ELSE queued(DescribeFromBuffer(N, f.variable, buffer)),
            f |-> [f EXCEPT !.variable = NULL]]
      ELSE IF f.constant # NULL
      THEN [N |-> IF private THEN Delete(N, f.constant)
                  ELSE queued(DescribeFromBuffer(N, f.constant, buffer)),
            f |-> [f EXCEPT !.constant = NULL]]
      ELSE IF f.typedefnode # NULL
      THEN IF private
           THEN [N |-> Delete(Delete(Delete(N, f.typedefnode), f.structclass), f.enumeration),
                 f |-> [f EXCEPT !.typedefnode = NULL, !.structclass = NULL,
                                 !.enumeration = NULL]]
           ELSE [N |-> LET N1 == queued(DescribeFromBuffer(N, f.typedefnode, buffer))
                       IN  IF f.structclass # NULL
                           THEN DescribeFromBuffer(N1, f.structclass, buffer)
                           ELSE IF f.enumeration # NULL
                           THEN DescribeFromBuffer(N1, f.enumeration, buffer)
                           ELSE N1,
                 f |-> [f EXCEPT !.typedefnode = IF cxx THEN @ ELSE NULL]]
      ELSE IF /\ N[f.tree].elem # "mxmldoc"
              /\ FindElement(N, f.tree, f.tree, "description", <<>>, TRUE) = NULL
      THEN [N |-> queued(DescribeFromBuffer(N, f.tree, buffer)), f |-> f]
      ELSE [N |-> queued(N), f |-> f]

\* a comment finished in state STATE_C_COMMENT or STATE_CXX_COMMENT
FinishComment(N, f, p, buffer, cxx) ==
  LET a == AttachComment(N, f, buffer, cxx)
  IN  Out(a.N, [a.f EXCEPT !.state = "NONE", !.buffer = buffer], p)

\* the end of case '\n' of STATE_C_COMMENT, after its while loop left with ch
AfterNewlineLoop(w, ch) ==
  Out(w.N,
      [w.f EXCEPT !.buffer = IF @ # <<>> /\ HasRoom(@) THEN Append(@, "\n") ELSE @],
      Ungetc(w.pos, ch))

\* case '\n' of STATE_C_COMMENT: the loop that reads up to the next text of the
\* comment or to its end; p is the position of the next getc
RECURSIVE CommentNewline(_, _, _)
CommentNewline(N, f, p) ==
  LET ch == Getc(p)
  IN  IF ch = EOF THEN AfterNewlineLoop(Out(N, f, p), EOF)
      ELSE IF ch = "*"
      THEN IF Getc(p + 1) = "/"
           THEN AfterNewlineLoop(FinishComment(N, f, p + 2, f.buffer, FALSE), "/")
           ELSE CommentNewline(N, f, p + 1)
      ELSE IF ch = "\n" /\ f.buffer # <<>> /\ HasRoom(f.buffer)
      THEN CommentNewline(N, [f EXCEPT !.buffer = Append(@, ch)], p + 1)
      ELSE IF ~IsSpace(ch) THEN AfterNewlineLoop(Out(N, f, p + 1), ch)
      ELSE CommentNewline(N, f, p + 1)

\* the buffer once trailing '*' and whitespace are cut off
TrimComment(buffer) ==
  LET n == CHOOSE n \in 0..Len(buffer) :
             /\ \A i \in (n + 1)..Len(buffer) : buffer[i] = "*" \/ IsSpace(buffer[i])
             /\ n > 0 => ~(buffer[n] = "*" \/ IsSpace(buffer[n]))
  IN  SubSeq(buffer, 1, n)

\* STATE_C_COMMENT: "Inside a C comment"
StateCComment(N, f, p, ch) ==
  IF ch = "\n" THEN CommentNewline(N, f, p)
  ELSE IF ch = "/" /\ f.buffer # <<>> /\ f.buffer[Len(f.buffer)] = "*"
  THEN FinishComment(N, f, p, TrimComment(f.buffer), FALSE)
  ELSE IF ch = " " /\ f.buffer = <<>> THEN Out(N, f, p)
  ELSE IF HasRoom(f.buffer) THEN Out(N, [f EXCEPT !.buffer = Append(@, ch)], p)
  ELSE Out(N, f, p)

\* STATE_CXX_COMMENT: "Inside a C++ comment"
StateCxxComment(N, f, p, ch) ==
  IF ch = "\n" THEN FinishComment(N, f, p, f.buffer, TRUE)
  ELSE IF ch = " " /\ f.buffer = <<>> THEN Out(N, f, p)
  ELSE IF HasRoom(f.buffer) THEN Out(N, [f EXCEPT !.buffer = Append(@, ch)], p)
  ELSE Out(N, f, p)

\* STATE_STRING and STATE_CHARACTER: "*bufptr++ = ch" has no bounds check; quote is
\* the character that ends the constant. The write of ch, of the character after
\* a backslash or of the final NUL at index sizeof(buffer) or above is a fault
StateQuoted(N, f, p, ch, quote) ==
  IF Len(f.buffer) >= BufSize THEN Fault(N, f, p)
  ELSE IF ch = "\\"
  THEN IF Len(f.buffer) + 1 >= BufSize THEN Fault(N, [f EXCEPT !.buffer = Append(@, ch)], p)
       ELSE Out(N, [f EXCEPT !.buffer = @ \o <<ch, Getc(p)>>],
                IF Getc(p) = EOF THEN p ELSE p + 1)
  ELSE IF ch = quote
  THEN IF Len(f.buffer) + 1 >= BufSize THEN Fault(N, [f EXCEPT !.buffer = Append(@, ch)], p)
       ELSE Out(IF f.type # NULL
                THEN NewText(N, f.type, N[f.type].texts # <<>>, Append(f.buffer, ch))
                ELSE N,
                [f EXCEPT !.state = "NONE", !.buffer = Append(@, ch)], p)
  ELSE Out(N, [f EXCEPT !.buffer = Append(@, ch)], p)

\* the scope a class keyword selects; <<>> when buffer is none of them
ScopeKeyword_without_colon(buffer) ==
  IF buffer \in {Str("public"), Str("private"), Str("protected")} THEN <<buffer>>
  ELSE <<>>

ScopeKeyword(buffer) ==
  IF buffer \in {Str("public"), Str("public:")} THEN <<Str("public")>>
  ELSE IF buffer \in {Str("private"), Str("private:")} THEN <<Str("private")>>
  ELSE IF buffer \in {Str("protected"), Str("protected:")} THEN <<Str("protected")>>
  ELSE <<>>

\* strchr(buffer, ':'): the index of the first ':' or 0
FirstColon(buffer) ==
  LET at == {i \in 1..Len(buffer) : buffer[i] = ":"}
  IN  IF at = {} THEN 0 ELSE CHOOSE i \in at : \A j \in at : i <= j

\* buffer names a member "Class::name"
IsQualified(buffer) ==
  LET i == FirstColon(buffer)
  IN  i # 0 /\ i < Len(buffer) /\ buffer[i + 1] = ":"

\* the function gets a returnvalue: the last text of its type is not "void"
ReturnsValue_never(N, type) == FALSE

ReturnsValue(N, type) == N[type].texts # <<>> /\ LastString(N, type) # Str("void")

\* the function found at "name(": type already exists and is not NULL
IdentifierFunction(N, f, p) ==
  IF /\ N[f.type].texts # <<>>
     /\ \/ FirstString(N, f.type) = Str("extern")
        \/ FirstString(N, f.type) = Str("static") /\ N[f.tree].elem = "mxmldoc"
  THEN Out(Delete(N, f.type), [f EXCEPT !.type = NULL], p)
  ELSE
    LET function  == Len(N) + 1
        N1        == NewElement(N, NULL, "function")
        qualified == IsQualified(f.buffer)
        colon     == FirstColon(f.buffer)
        class     == SubSeq(f.buffer, 1, colon - 1)
        found     == FindElement(N1, f.tree, f.tree, "class", <<class>>, TRUE)
        fstructclass ==
          IF ~qualified THEN f.fstructclass
          ELSE IF found # NULL THEN found
          ELSE FindElement(N1, f.tree, f.tree, "struct", <<class>>, TRUE)
        name == IF qualified THEN From(f.buffer, colon + 2) ELSE f.buffer
        N2 == SetAttr(N1, function, "name", name)
        N3 == IF f.scope # <<>> THEN SetAttr(N2, function, "scope", f.scope[1]) ELSE N2
        returnvalue == Len(N3) + 1
        N4 == IF ReturnsValue(N3, f.type)
              THEN DescribeFromComment(
                     AddLast(NewElement(N3, function, "returnvalue"), returnvalue, f.type),
                     returnvalue, f.comment)
              ELSE Delete(N3, f.type)
    IN  Out(DescribeFromComment(N4, function, f.comment),
            [f EXCEPT !.function = function, !.fstructclass = fstructclass,
                      !.buffer = name, !.type = NULL],
            p)

\* "Argument definition"
IdentifierArgument(N, f, p) ==
  IF f.buffer = Str("void") THEN Out(Delete(N, f.type), [f EXCEPT !.type = NULL], p)
  ELSE
    LET N1 == NewText(N, f.type, NameFlag(N, f.type), f.buffer)
    IN  IF AddVariableFaults(N1, f.type) THEN Fault(N1, f, p)
        ELSE Out(add_variable(N1, f.function, "argument", f.type),
                 [f EXCEPT !.variable = Len(N1) + 1, !.type = NULL], p)

\* the name that ends a typedef or names a struct after its body
IdentifierTypedefName(N, f, p) ==
  LET N1 == IF f.typedefnode # NULL
            THEN sort_node(SetAttr(N, f.typedefnode, "name", f.buffer), f.tree, f.typedefnode)
            ELSE N
      names == f.structclass # NULL /\ ~HasAttr(N1, f.structclass, "name")
      N2 == IF names
            THEN sort_node(SetAttr(N1, f.structclass, "name", f.buffer), f.tree, f.structclass)
            ELSE N1
      N3 == IF f.typedefnode # NULL THEN AddFirst(N2, f.typedefnode, f.type)
            ELSE Delete(N2, f.type)
  IN  Out(N3, [f EXCEPT !.structclass = IF names THEN NULL ELSE @,
                        !.type = NULL, !.typedefnode = NULL], p)

\* "Simple typedef"
IdentifierSimpleTypedef(N, f, p) ==
  LET typedefnode == Len(N) + 1
      N1 == DeleteFirstText(SetAttr(NewElement(N, NULL, "typedef"), typedefnode, "name",
                                    f.buffer),
                            f.type)
      N2 == ClearWhitespace(sort_node(N1, f.tree, typedefnode), f.type)
  IN  Out(AddLast(N2, typedefnode, f.type),
          [f EXCEPT !.typedefnode = typedefnode, !.type = NULL], p)

\* "Variable definition"
IdentifierVariable_keeps_static(N, f, p) ==
  LET N1 == NewText(N, f.type, NameFlag(N, f.type), f.buffer)
  IN  IF AddVariableFaults(N1, f.type) THEN Fault(N1, f, p)
      ELSE Out(DefineVariable(N1, f.tree, f.type, f.scope),
               [f EXCEPT !.variable = Len(N1) + 1, !.type = NULL], p)

IdentifierVariable(N, f, p) ==
  IF FirstString(N, f.type) = Str("static") /\ N[f.tree].elem = "mxmldoc"
  THEN Out(Delete(N, f.type), [f EXCEPT !.type = NULL], p)
  ELSE
    LET N1 == NewText(N, f.type, NameFlag(N, f.type), f.buffer)
    IN  IF AddVariableFaults(N1, f.type) THEN Fault(N1, f, p)
        ELSE Out(DefineVariable(N1, f.tree, f.type, f.scope),
                 [f EXCEPT !.variable = Len(N1) + 1, !.type = NULL], p)

\* the identifier in buffer ended by ch while braces is 0 and no scope keyword
IdentifierOutside(N0, f0, p, ch) ==
  LET N == IF f0.type = NULL THEN NewElement(N0, NULL, "type") ELSE N0
      f == IF f0.type = NULL THEN [f0 EXCEPT !.type = Len(N0) + 1] ELSE f0
  IN  IF f.function = NULL /\ ch = "(" THEN IdentifierFunction(N, f, p)
      ELSE IF f.function # NULL /\ ((ch = ")" /\ f.parens = 1) \/ ch = ",")
      THEN IdentifierArgument(N, f, p)
      ELSE IF N[f.type].texts # <<>> /\ f.function = NULL /\ ch \in {";", ","}
      THEN IF f.typedefnode # NULL \/ f.structclass # NULL
           THEN IdentifierTypedefName(N, f, p)
           ELSE IF FirstString(N, f.type) = Str("typedef")
           THEN IdentifierSimpleTypedef(N, f, p)
           ELSE IF f.parens = 0 THEN IdentifierVariable(N, f, p)
           ELSE Out(N, f, p)
      ELSE Out(NewText(N, f.type, NameFlag(N, f.type), f.buffer), f, p)

\* an enumeration constant
IdentifierConstant_appended(N, f, p) ==
  LET constant == Len(N) + 1
  IN  Out(AddLast(SetAttr(NewElement(N, NULL, "constant"), constant, "name", f.buffer),
                  f.enumeration, constant),
          [f EXCEPT !.constant = constant], p)

IdentifierConstant(N, f, p) ==
  LET constant == Len(N) + 1
  IN  Out(sort_node(SetAttr(NewElement(N, NULL, "constant"), constant, "name", f.buffer),
                    f.enumeration, constant),
          [f EXCEPT !.constant = constant], p)

\* the characters that continue an identifier
ContinuesIdentifier_no_punctuation(N, f, ch) ==
  IsAlnum(ch) \/ ch \in {"_", "[", "]", ".", "~"}

ContinuesIdentifier(N, f, ch) ==
  \/ IsAlnum(ch) \/ ch \in {"_", "[", "]", ":", ".", "~"}
  \/ /\ ch = ","
     /\ \/ f.parens > 1
        \/ f.type # NULL /\ f.enumeration = NULL /\ f.function = NULL

\* STATE_IDENTIFIER: "Inside a keyword or identifier"
StateIdentifier(N, f0, p0, ch) ==
  IF ContinuesIdentifier(N, f0, ch)
  THEN Out(N, [f0 EXCEPT !.buffer = IF HasRoom(@) THEN Append(@, ch) ELSE @], p0)
  ELSE
    LET p == Ungetc(p0, ch)
        f == [f0 EXCEPT !.state = "NONE"]
    IN  IF f.braces = 0
        THEN IF /\ f.type = NULL \/ N[f.type].texts = <<>>
                /\ N[f.tree].elem = "class"
                /\ ScopeKeyword(f.buffer) # <<>>
             THEN Out(N, [f EXCEPT !.scope = ScopeKeyword(f.buffer)], p)
             ELSE IdentifierOutside(N, f, p, ch)
        ELSE IF f.enumeration # NULL /\ ~IsDigit(FirstChar(f.buffer))
        THEN IdentifierConstant(N, f, p)
        ELSE IF f.type # NULL THEN Out(Delete(N, f.type), [f EXCEPT !.type = NULL], p)
        ELSE Out(N, f, p)

----------------------------------------------------------------------------
(* The scan of one input file into an empty document                       *)

\* the source texts the scanner is run on
ReturnTypes == {Str("int"), Str("void"), Str("const char *")}

ArgumentTypes == {Str("int"), Str("char *")}

\* a prototype "T f(A a, B b);"
Prototype(T, name, A, B) ==
  T \o Str(" ") \o name \o Str("(") \o A \o Str(" a, ") \o B \o Str(" b);")

InClass(body) == Str("class C {") \o body \o Str("};")

Prototypes ==
  {Prototype(T, Str("f"), A, B) : T \in ReturnTypes, A \in ArgumentTypes, B \in ArgumentTypes}

OtherPrograms ==
  { InClass(Prototype(Str("int"), Str("_f"), Str("int"), Str("int"))),
    InClass(Str("void f(int _x, int b);")),
    Str("void f(int _x) {}"),
    InClass(Str("\n/** Add two numbers. */\nint add(int a, int b);\n")),
    InClass(Str("\n/** Reset. */\nvoid reset(int a, int b);\n")),
    Str("typedef struct { int x; int y; } point_t;"),
    Str("struct S { int x;"),
    Str("extern \"C\" { int x;"),
    Str("int f(void) {}"),
    Str("/* doc */ int g(void) {}"),
    Str("struct S { int x; };"),
    Str("enum E { A, B };"),
    Str("#include <a.h>\nint _y; int x; // the x\n"),
    Str("/*\n * 'f()' - Do it.\n */\nvoid f(char c = 'a') {}"),
    Str("typedef int a; int _b;"),
    Str("int f(int a)) { if (a) { a = 1; } } } int x;"),
    Str("enum E { A, B }; void f(void) { x; }"),
    Str("typedef enum e { A, B } e_t; void f(void) { x; }"),
    Str("typedef enum e { A, B } e_t ; void f(void) { x; }"),
    Str("class C { }; void C::m(void) {} void g(void) {}"),
    Str("class C { }; void C::m(void); void g(void) {}"),
    Str("struct S { }; int S::T::get(void) {}"),
    Str("int w; extern \"C\" { int x; } int y;"),
    InClass(Str(" int a; public: int b; protected: void f(void); private int c;")),
    Str("struct S { public: int x; };"),
    InClass(Str(" public: int a; struct S { int x; }; int y;")),
    Str("int a,b;"),
    Str("int x = a+b-c; int &r;"),
    Str("typedef int a; namespace N { /* c */ int x; } int y;"),
    Str("class C { }; void C::m(void); class C { }; void g(void) {}"),
    Str("int x; extern \"C\" { int x; }"),
    Str("f(a, b) { } = 1; int (*p)(int) = 0;"),
    Str("enum E { _A, D, B = 1, C = B, B };"),
    Str("char *s = \"0123456789012345678901234567890123456789\";"),
    Str("int a0123456789012345678901234567890123456789;"),
    Str("// 0123456789012345678901234567890123456789\nint c; /* 0123456789012345678901234567890123456789 */"),
    Str("static int x; static int f(int a) {} extern int g(void); class C { static int n; static void m(void); };") }

\* declarations with a comment after them, in each of the three comment forms
CommentPrograms ==
  { Str("int x; /* @private@ */\n"),
    Str("int x; //@private@\n"),
    Str("int x; /*\n@private@\n*/\n"),
    Str("enum E { A, /* @private@ */ B };"),
    Str("typedef enum e { A } /* @private@ */ e_t;"),
    Str("typedef struct s { int x; } /* @private@ */ s_t;"),
    Str("int x; /* the x */ void f(void) {}"),
    Str("typedef int a; // an a\nint b;"),
    Str("typedef int a; /* an a */\nint b;"),
    Str("typedef int a; /*\n an a\n */\nint b;"),
    Str("typedef int a;\nint b;"),
    Str("/* one */ /* two */ /*\n three\n */ int f(void) {}"),
    Str("void f(char *buf, /* IO - the buffer */ int n) /* I -  count */ {}"),
    Str("int x; /* O - the x */ int y; // I am y\n"),
    Str("/* I think so */ void g(void) {}") }

Programs ==
  Prototypes \cup {InClass(q) : q \in Prototypes} \cup OtherPrograms
    \cup CommentPrograms

\* main creates the document and scan_file creates its comment holder
Init ==
  /\ nodes = NewElement(MakeTree("mxmldoc", <<>>), NULL, "temp")
  /\ stack = <<NewFrame(nodes, Root, Len(nodes))>>
  /\ input \in Programs
  /\ pos = 1
  /\ call = NoCall

Top == stack[Len(stack)]

Running == stack # <<>> /\ Top.pc = "run"

\* the handler's outcome becomes the next state; a handler that stopped at a
\* recursive call starts the new invocation on the struct or on the same tree
Commit(w) ==
  /\ IF w.f.pc \in {"struct", "extern"}
     THEN LET N1   == NewElement(w.N, NULL, "temp")
              tree == IF w.f.pc = "struct" THEN w.f.structclass ELSE w.f.tree
          IN  /\ nodes' = N1
              /\ stack' = Append([stack EXCEPT ![Len(stack)] = w.f],
                                 NewFrame(N1, tree, Len(N1)))
     ELSE /\ nodes' = w.N
          /\ stack' = [stack EXCEPT ![Len(stack)] = w.f]
  /\ pos' = w.pos
  /\ call' = [NoCall EXCEPT !.op = "scan", !.unclosed = call.unclosed]
  /\ UNCHANGED input

\* case '{' with a function pending calls sort_node(fstructclass, function): when
\* the class fstructclass points to has been deleted, this reads freed memory
ReadsFreed(N, f, ch) ==
  /\ ch = "{" /\ f.function # NULL
  /\ f.fstructclass # NULL /\ N[f.fstructclass].freed

\* what an iteration in STATE_NONE can do: a read of freed memory either goes
\* unnoticed, the function being linked to the deleted class, or stops the scan
NoneOutcomes(N, f, p, ch) ==
  {StateNone(N, f, p, ch)} \cup (IF ReadsFreed(N, f, ch) THEN {Fault(N, f, p)} ELSE {})

ScanNone ==
  /\ Running /\ Top.state = "NONE" /\ pos <= Len(input)
  /\ \E w \in NoneOutcomes(nodes, Top, pos + 1, input[pos]) : Commit(w)

ScanPreprocessor ==
  /\ Running /\ Top.state = "PREPROCESSOR" /\ pos <= Len(input)
  /\ Commit(StatePreprocessor(nodes, Top, pos + 1, input[pos]))

ScanCComment ==
  /\ Running /\ Top.state = "C_COMMENT" /\ pos <= Len(input)
  /\ Commit(StateCComment(nodes, Top, pos + 1, input[pos]))

ScanCxxComment ==
  /\ Running /\ Top.state = "CXX_COMMENT" /\ pos <= Len(input)
  /\ Commit(StateCxxComment(nodes, Top, pos + 1, input[pos]))

ScanString ==
  /\ Running /\ Top.state = "STRING" /\ pos <= Len(input)
  /\ Commit(StateQuoted(nodes, Top, pos + 1, input[pos], "\""))

ScanCharacter ==
  /\ Running /\ Top.state = "CHARACTER" /\ pos <= Len(input)
  /\ Commit(StateQuoted(nodes, Top, pos + 1, input[pos], "'"))

ScanIdentifier ==
  /\ Running /\ Top.state = "IDENTIFIER" /\ pos <= Len(input)
  /\ Commit(StateIdentifier(nodes, Top, pos + 1, input[pos]))

\* getc returns EOF: the loop ends, "All done, return with no errors"
ScanEOF ==
  /\ Running /\ pos > Len(input)
  /\ LET w == Return(nodes, [Top EXCEPT !.eof = TRUE], pos, 0)
     IN  /\ nodes' = w.N
         /\ stack' = [stack EXCEPT ![Len(stack)] = w.f]
  /\ call' = [NoCall EXCEPT !.op = "eof",
                             !.unclosed = call.unclosed \/ Len(stack) > 1]
  /\ UNCHANGED <<input, pos>>

\* main after scan_file returned ret: "mxmlDelete(doc); return (1)" for a failure,
\* else the XML file is saved and the documentation written
MainAfterScan(N, ret) ==
  IF ret # 0 THEN [N |-> Delete(N, Root), status |-> 1, written |-> FALSE]
  ELSE [N |-> N, status |-> 0, written |-> TRUE]

\* what the caller does with the result of the recursive call: "if (scan_file(...))
\* { mxmlDelete(comment); return (-1); }", else it goes on after the call
AfterRecursion_counts_body(N, f, p, ret) ==
  IF ret # 0 THEN Return(N, f, p, -1)
  ELSE Out(N, AfterOpenBrace([f EXCEPT !.structclass = NULL, !.pc = "run"]), p)

AfterRecursion(N, f, p, ret) ==
  IF ret # 0 THEN Return(N, f, p, -1)
  ELSE IF f.pc = "struct"
  THEN Out(N, [f EXCEPT !.structclass = NULL, !.pc = "run"], p)
  ELSE Out(N, AfterOpenBrace([f EXCEPT !.pc = "run"]), p)

\* an invocation returns to its caller, and the outermost one to main
ScanReturn ==
  /\ stack # <<>> /\ Top.pc = "return"
  /\ LET callers == SubSeq(stack, 1, Len(stack) - 1)
         f == callers[Len(callers)]
         w == AfterRecursion(nodes, f, pos, Top.ret)
         m == MainAfterScan(nodes, Top.ret)
         c == [NoCall EXCEPT !.op = "scan_file", !.node = Top.tree,
                             !.result = Top.ret, !.eof = Top.eof,
                             !.unclosed = call.unclosed]
     IN  IF callers = <<>>
         THEN /\ nodes' = m.N /\ stack' = <<>>
              /\ call' = [c EXCEPT !.element = "main", !.exited = TRUE,
                                   !.status = m.status, !.written = m.written]
         ELSE /\ nodes' = w.N /\ stack' = [callers EXCEPT ![Len(callers)] = w.f]
              /\ call' = [c EXCEPT !.element = f.pc]
  /\ UNCHANGED <<input, pos>>

Next ==
  \/ ScanNone \/ ScanPreprocessor \/ ScanCComment \/ ScanCxxComment
  \/ ScanString \/ ScanCharacter \/ ScanIdentifier
  \/ ScanEOF \/ ScanReturn

Spec == Init /\ [][Next]_vars

----------------------------------------------------------------------------
(* Claims about the scanner                                                *)

\* the scan is over: the outermost scan_file has returned
Finished == stack = <<>>

Live(elem) == {n \in 1..Len(nodes) : nodes[n].elem = elem /\ ~nodes[n].freed}

\* the children of p that are elem elements, as indices into p's children
ChildIndices(p, elem) ==
  {i \in 1..Len(nodes[p].children) : nodes[nodes[p].children[i]].elem = elem}

ElementsOf(p, elem) == {nodes[p].children[i] : i \in ChildIndices(p, elem)}

\* the joined text of each type child of n
TypesOf(n) == {JoinTexts(nodes[t].texts, 1, <<>>) : t \in ElementsOf(n, "type")}

\* the texts of each description child of n
DescriptionsIn(n) ==
  {[i \in 1..Len(nodes[d].texts) |-> nodes[d].texts[i].string] :
     d \in ElementsOf(n, "description")}

HasName(n, name) == HasAttr(nodes, n, "name") /\ NameOf(n) = name

\* the children of p that are elem elements are exactly two, named first and
\* second in this order, of types A and B
TwoTyped(p, elem, first, A, second, B) ==
  LET at == ChildIndices(p, elem)
  IN  /\ Cardinality(at) = 2
      /\ \E i, j \in at :
           /\ i < j
           /\ HasName(nodes[p].children[i], first)
           /\ TypesOf(nodes[p].children[i]) = {A}
           /\ HasName(nodes[p].children[j], second)
           /\ TypesOf(nodes[p].children[j]) = {B}

\* n is in the document: its parents lead to the root
RECURSIVE InDocument(_)
InDocument(n) ==
  IF n = Root THEN TRUE
  ELSE IF nodes[n].parent = NULL \/ nodes[n].freed THEN FALSE
  ELSE InDocument(nodes[n].parent)

\* the element kinds that reach the tree through sort_node
SortedKinds ==
  {"function", "variable", "typedef", "struct", "union", "class", "enumeration",
   "constant"}

BadName(N, n) == ~HasAttr(N, n, "name") \/ FirstChar(GetAttr(N, n, "name")) = "_"

\* C3 as stated: no declaration in the document, arguments of functions
\* included, has a name that begins with '_' or has no name.
C3_NoUnderscoreAnywhere ==
  \A n \in 1..Len(nodes) :
    (nodes[n].elem \in SortedKinds \cup {"argument"} /\ InDocument(n))
      => ~BadName(nodes, n)

\* C3: no step of the scan puts a function, variable, typedef, struct, union,
\* class, enumeration or constant under a parent when the node has no name or a
\* name that begins with '_': sort_node leaves such a node out of the tree.
C3_SortedKindsRejected ==
  [][\A n \in 1..Len(nodes') :
       ( /\ nodes'[n].elem \in SortedKinds
         /\ nodes'[n].parent # NULL
         /\ n > Len(nodes) \/ nodes[n].parent # nodes'[n].parent )
         => ~BadName(nodes', n)]_vars

\* a function and a variable named with '_' were handed to sort_node and stay
\* outside the tree once the scan is over
C3_Witness ==
  /\ Finished
  /\ \E n \in Live("variable") \cup Live("function") :
       /\ HasAttr(nodes, n, "name") /\ FirstChar(NameOf(n)) = "_"
       /\ nodes[n].parent = NULL
       /\ nodes[Root].children # <<>>

\* the declarations find_public can be asked for
DescribedKinds == {"function", "struct", "union", "class", "enumeration"}

\* C6 as stated: a function, struct, union, class or enumeration of the document
\* that has no description or a description without text is never returned by
\* find_public, whatever the cursor.
C6_UndescribedIsPrivate ==
  \A n \in KidSet(Kids) :
    (nodes[n].elem \in DescribedKinds /\ DescriptionsIn(n) \subseteq {<<>>})
      => \A cursor \in {Root} \cup KidSet(Kids) :
           find_public(nodes, cursor, Root, nodes[n].elem, <<>>) # n

\* C7: after the scan of a prototype "T f(A a, B b);" outside a class no function
\* is left in the document; after its scan in a class body the class has exactly
\* one function, named f, whose arguments are a of type A then b of type B, and
\* which has one returnvalue of type T unless T is void, and none when it is.
C7_Prototype ==
  \A T \in ReturnTypes, A \in ArgumentTypes, B \in ArgumentTypes :
    /\ (Finished /\ input = Prototype(T, Str("f"), A, B))
         => /\ nodes[Root].children = <<>>
            /\ Live("function") = {}
    /\ (Finished /\ input = InClass(Prototype(T, Str("f"), A, B)))
         => \E class \in ElementsOf(Root, "class") :
              /\ Cardinality(ElementsOf(class, "function")) = 1
              /\ Live("function") = ElementsOf(class, "function")
              /\ \A function \in ElementsOf(class, "function") :
                   /\ HasName(function, Str("f"))
                   /\ TwoTyped(function, "argument", Str("a"), A, Str("b"), B)
                   /\ IF T = Str("void") THEN ElementsOf(function, "returnvalue") = {}
                      ELSE /\ Cardinality(ElementsOf(function, "returnvalue")) = 1
                           /\ \A r \in ElementsOf(function, "returnvalue") :
                                TypesOf(r) = {T}

C7_Witness ==
  /\ Finished
  /\ input = InClass(Prototype(Str("const char *"), Str("f"), Str("char *"), Str("int")))
  /\ \E function \in Live("function") :
       /\ nodes[nodes[function].parent].elem = "class"
       /\ ElementsOf(function, "returnvalue") # {}

AddExample == InClass(Str("\n/** Add two numbers. */\nint add(int a, int b);\n"))

\* the function add of the example with its returnvalue and arguments
AddFunctions ==
  {n \in Live("function") :
     /\ HasName(n, Str("add"))
     /\ nodes[nodes[n].parent].elem = "class"
     /\ Cardinality(ElementsOf(n, "returnvalue")) = 1
     /\ \A r \in ElementsOf(n, "returnvalue") : TypesOf(r) = {Str("int")}
     /\ TwoTyped(n, "argument", Str("a"), Str("int"), Str("b"), Str("int"))}

\* C8 as stated: the example yields a function add whose own description text is
\* "Add two numbers.".
C8_OwnDescription ==
  (Finished /\ input = AddExample)
    => \E n \in AddFunctions : DescriptionsIn(n) = {<<Str("Add two numbers.")>>}

\* C8: the comment before a function that returns a value becomes the description
\* of its returnvalue and the function's own description stays without text: the
\* example yields a function add with an empty description, a returnvalue of type
\* int described by "Add two numbers." and arguments a, b of type int.
C8_ReturnDescription ==
  (Finished /\ input = AddExample)
    => /\ Cardinality(AddFunctions) = 1
       /\ \A n \in AddFunctions :
            /\ DescriptionsIn(n) = {<<>>}
            /\ \A r \in ElementsOf(n, "returnvalue") :
                 DescriptionsIn(r) = {<<Str("Add two numbers.")>>}

C8_Witness ==
  /\ Finished /\ input = AddExample
  /\ \E n \in AddFunctions, r \in Live("returnvalue") :
       nodes[r].parent = n /\ DescriptionsIn(r) # {<<>>}

PointExample == Str("typedef struct { int x; int y; } point_t;")

\* C9: the example yields one typedef, named point_t and in the document, and one
\* struct, without a name, whose variables are x then y, each of type int.
C9_AnonymousStruct ==
  (Finished /\ input = PointExample)
    => /\ Cardinality(Live("typedef")) = 1
       /\ \A t \in Live("typedef") :
            HasName(t, Str("point_t")) /\ nodes[t].parent = Root
       /\ Cardinality(Live("struct")) = 1
       /\ \A st \in Live("struct") :
            /\ ~HasAttr(nodes, st, "name")
            /\ TwoTyped(st, "variable", Str("x"), Str("int"), Str("y"), Str("int"))

C9_Witness ==
  /\ Finished /\ input = PointExample
  /\ \E st \in Live("struct") : nodes[st].parent = NULL /\ Len(nodes[st].children) = 3

\* C10 as stated: a recursive scan_file invocation, started for an aggregate body
\* or an extern block, that ends at end of file returns -1.
C10_EofFails ==
  (call.op = "scan_file" /\ call.element \in {"struct", "extern"} /\ call.eof)
    => call.result = -1

After == stack'[Len(stack')]

\* the step completes a comment: "state = STATE_NONE" in a comment state
Completes ==
  /\ Running /\ Top.state \in {"C_COMMENT", "CXX_COMMENT"}
  /\ Len(stack') = Len(stack) /\ After.state = "NONE"

\* the comment the step completed holds "@private@"
CompletesPrivate == Completes /\ StrStr(After.buffer, K_private_tag)

\* the struct, union, class or enumeration created together with typedef n at '{'
Alongside(n) ==
  IF n < Len(nodes) /\ nodes[n + 1].elem \in {"struct", "union", "class", "enumeration"}
  THEN {n + 1} ELSE {}

\* C12: a completed comment that holds '@private@' deletes the pending variable
\* or argument, else the pending constant, else the pending typedef together with
\* the struct or enumeration created alongside it, and clears the pending slot.
C12_PrivateDiscarded ==
  [][CompletesPrivate =>
       IF Top.variable # NULL
       THEN nodes'[Top.variable].freed /\ After.variable = NULL
       ELSE IF Top.constant # NULL
       THEN nodes'[Top.constant].freed /\ After.constant = NULL
       ELSE Top.typedefnode # NULL =>
              /\ nodes'[Top.typedefnode].freed
              /\ After.typedefnode = NULL
              /\ After.structclass = NULL /\ After.enumeration = NULL
              /\ \A n \in Alongside(Top.typedefnode) : nodes'[n].freed]_vars

\* the step reads '}' in state STATE_NONE
ReadsCloseBrace ==
  Running /\ Top.state = "NONE" /\ pos <= Len(input) /\ input[pos] = "}"

\* C13: '}' read in the no-token state at brace depth 0 ends the invocation with
\* success and nothing more read, at a positive depth it takes one off the depth,
\* and no invocation ever has a negative brace depth or paren depth.
C13_BraceDepth ==
  /\ [](\A i \in 1..Len(stack) : stack[i].braces >= 0 /\ stack[i].parens >= 0)
  /\ [][ReadsCloseBrace =>
          /\ Len(stack') = Len(stack)
          /\ pos' = pos + 1
          /\ IF Top.braces = 0
             THEN After.pc = "return" /\ After.ret = 0 /\ After.braces = 0
             ELSE After.pc = "run" /\ After.braces = Top.braces - 1]_vars

\* an invocation was ended by '}' at depth 0 after it had closed a nested brace,
\* with input left unread and a ')' met at paren depth 0
C13_Witness ==
  /\ stack # <<>> /\ Top.pc = "return" /\ ~Top.eof /\ Top.ret = 0
  /\ pos <= Len(input) /\ input[pos - 1] = "}"
  /\ \E i \in 1..(pos - 2) : input[i] = "}"
  /\ \E i \in 1..(pos - 1) : input[i] = ")" /\ input[i + 1] = ")"

\* the texts the comment holder keeps when a comment completes: the older of two
\* is dropped
KeptTexts == 
  LET texts == nodes[Top.comment].texts
  IN  IF Len(texts) >= 2 THEN Tail(texts) ELSE texts

\* the completed comment was stored as the pending comment
Stored ==
  /\ Len(nodes'[After.comment].texts) = Len(KeptTexts) + 1
  /\ SubSeq(nodes'[After.comment].texts, 1, Len(KeptTexts)) = KeptTexts

NotStored == nodes'[After.comment].texts = KeptTexts

\* node n got a new description child, or was deleted for a private comment
Received(n) ==
  \/ nodes'[n].freed
  \/ /\ Len(nodes'[n].children) = Len(nodes[n].children) + 1
     /\ nodes'[nodes'[n].children[Len(nodes'[n].children)]].elem = "description"

\* the scan root takes the comment as its own description
RootTakes ==
  /\ nodes[Top.tree].elem # "mxmldoc"
  /\ ElementsOf(Top.tree, "description") = {}

\* C14: a completed comment goes to exactly one target: the pending variable or
\* argument, else the pending constant, else the pending typedef, else the scan
\* root without description, and only when there is none of these is it stored
\* as the pending comment for the next declaration.
C14_OneTarget ==
  [][Completes =>
       IF Top.variable # NULL THEN Received(Top.variable) /\ NotStored
       ELSE IF Top.constant # NULL THEN Received(Top.constant) /\ NotStored
       ELSE IF Top.typedefnode # NULL THEN Received(Top.typedefnode) /\ NotStored
       ELSE IF RootTakes THEN Received(Top.tree) /\ NotStored
       ELSE Stored]_vars

\* C15: the three completion paths (block comment ended after a newline, block
\* comment ended on a line with text, line comment) leave the same pending slots
\* for the same slots before: the first pending one of variable, constant and
\* typedef is cleared, the typedef also after a comment that is not private.
C15_SameSlots ==
  [][Completes =>
       /\ After.variable = NULL
       /\ After.constant = (IF Top.variable # NULL THEN Top.constant ELSE NULL)
       /\ After.typedefnode =
            (IF Top.variable # NULL \/ Top.constant # NULL THEN Top.typedefnode
             ELSE NULL)]_vars

\* the typedef nodes that are named and in the tree
NamedTypedefs ==
  {n \in Live("typedef") : nodes[n].parent # NULL /\ HasAttr(nodes, n, "name")}

TypedefThenVariable == Str("typedef int a;\nint b;")

\* C16: a typedef that is named and in the tree keeps its name and its type
\* children in every later step, and the variable declared after 'typedef int a;'
\* is recorded as a variable next to typedef a.
C16_TypedefKeepsName ==
  /\ [][\A n \in NamedTypedefs :
          \/ nodes'[n].freed
          \/ /\ GetAttr(nodes', n, "name") = GetAttr(nodes, n, "name")
             /\ \A c \in 1..Len(nodes'[n].children) :
                  nodes'[nodes'[n].children[c]].elem = "type"
                    => \E d \in 1..Len(nodes[n].children) :
                         nodes[n].children[d] = nodes'[n].children[c]]_vars
  /\ []((Finished /\ input = TypedefThenVariable) =>
          /\ \E n \in ElementsOf(Root, "typedef") : HasName(n, Str("a"))
          /\ \E n \in ElementsOf(Root, "variable") : HasName(n, Str("b")))

\* the step reads ';' in state STATE_NONE outside all braces
ReadsSemicolonOutside ==
  /\ Running /\ Top.state = "NONE" /\ Top.braces = 0
  /\ pos <= Len(input) /\ input[pos] = ";"

EnumThenFunction == Str("typedef enum e { A, B } e_t; void f(void) { x; }")

\* the names of the constants of the enumerations of the tree
ConstantNames ==
  {NameOf(c) : c \in UNION {ElementsOf(e, "constant") : e \in Live("enumeration")}}

\* C17: once the ';' that ends a declaration outside all braces is read no
\* enumeration is pending, so the constants of 'typedef enum e { A, B } e_t;' are A
\* and B whatever follows it.
C17_ConstantsInsideBraces ==
  /\ [][ReadsSemicolonOutside => After.enumeration = NULL]_vars
  /\ []((Finished /\ input = EnumThenFunction) => ConstantNames = {Str("A"), Str("B")})

\* the step ends the identifier that names a new function
CreatesFunction ==
  /\ Running /\ Top.state = "IDENTIFIER" /\ Top.function = NULL
  /\ Len(stack') = Len(stack) /\ After.function # NULL

\* the children of tree that a prefix names: the classes, failing that the structs
PrefixNames(tree, prefix) ==
  LET classes == {n \in ElementsOf(tree, "class") : HasName(n, prefix)}
  IN  IF classes # {} THEN classes
      ELSE {n \in ElementsOf(tree, "struct") : HasName(n, prefix)}

\* where the function a step creates is to be inserted: NULL for the scan root
InsertionTarget(buffer, tree, target) ==
  IF IsQualified(buffer)
  THEN LET named == PrefixNames(tree, SubSeq(buffer, 1, FirstColon(buffer) - 1))
       IN  IF named = {} THEN target = NULL ELSE target \in named
  ELSE target = NULL

\* the step reads '{' in state STATE_NONE with a function pending
DefinesFunction ==
  /\ Running /\ Top.state = "NONE" /\ Top.function # NULL
  /\ pos <= Len(input) /\ input[pos] = "{"

\* C18: a function named with '::' is to be inserted under the class, failing that
\* the struct, child of the scan root that the prefix before the first '::' names,
\* with the rest as its name, and a function named without '::' under the scan
\* root, whatever was scanned before; '{' inserts the function there.
C18_QualifiedTarget ==
  /\ [][CreatesFunction =>
          /\ InsertionTarget(Top.buffer, Top.tree, After.fstructclass)
          /\ IsQualified(Top.buffer) =>
               GetAttr(nodes', After.function, "name") =
                 From(Top.buffer, FirstColon(Top.buffer) + 2)]_vars
  /\ [][(DefinesFunction /\ ~BadName(nodes, Top.function)) =>
          nodes'[Top.function].parent =
            (IF Top.fstructclass # NULL THEN Top.fstructclass ELSE Top.tree)]_vars

\* the step returns from the recursive scan of an extern block, ended by the
\* block's '}', to its caller
ReturnsFromExtern ==
  /\ Len(stack) >= 2 /\ Top.pc = "return" /\ Top.ret = 0 /\ ~Top.eof
  /\ stack[Len(stack) - 1].pc = "extern"

AroundExtern == Str("int w; extern \"C\" { int x; } int y;")

\* C19: when the recursive scan of an extern block returns, the caller's brace
\* depth is what it was before the block's '{', and the declarations before, in
\* and after the block all become variables of the same root.
C19_ExternDepth ==
  /\ [][ReturnsFromExtern => After.braces = stack[Len(stack) - 1].braces]_vars
  /\ []((Finished /\ input = AroundExtern) =>
          {NameOf(n) : n \in ElementsOf(Root, "variable")} = {Str("w"), Str("x"), Str("y")})

\* the step starts the recursive invocation for the body of an aggregate
StartsBody == stack # <<>> /\ Len(stack') = Len(stack) + 1

\* the step ends an identifier that is read outside all braces with no type
\* sequence open
EndsBareIdentifier ==
  /\ Running /\ Top.state = "IDENTIFIER" /\ Top.braces = 0
  /\ Len(stack') = Len(stack) /\ After.state = "NONE"
  /\ Top.type = NULL \/ nodes[Top.type].texts = <<>>

\* the visibility a word names, with or without a trailing ':'
LabelWords ==
  {Str("public"), Str("private"), Str("protected")}

IsLabel(buffer) ==
  \/ buffer \in LabelWords
  \/ /\ buffer # <<>> /\ buffer[Len(buffer)] = ":"
     /\ SubSeq(buffer, 1, Len(buffer) - 1) \in LabelWords

LabelOf(buffer) ==
  IF buffer \in LabelWords THEN buffer ELSE SubSeq(buffer, 1, Len(buffer) - 1)

\* the functions and variables the step creates
NewDeclarations ==
  {n \in (Len(nodes) + 1)..Len(nodes') : nodes'[n].elem \in {"function", "variable"}}

ScopedClass ==
  InClass(Str(" int a; public: int b; protected: void f(void); private int c;"))

\* the member of the only class that is named name has this scope
MemberScope(elem, name, scope) ==
  \E c \in ElementsOf(Root, "class") : \E n \in ElementsOf(c, elem) :
    HasName(n, name) /\ HasAttr(nodes, n, "scope") /\ GetAttr(nodes, n, "scope") = scope

Context(f) ==
  <<f.scope, f.braces, f.parens, f.function, f.variable, f.enumeration>>

\* the step reads the '{' that starts the recursive scan of an aggregate body
StartsAggregateBody ==
  /\ Running /\ Len(stack') = Len(stack) + 1
  /\ stack'[Len(stack)].pc = "struct"

\* the step returns from the recursive scan of an aggregate body to its caller
ReturnsFromBody ==
  /\ Len(stack) >= 2 /\ Top.pc = "return"
  /\ stack[Len(stack) - 1].pc = "struct"

\* C21: the recursive scan of an aggregate body leaves the context of the
\* enclosing invocation alone: scope, brace depth, paren depth and the pending
\* function, variable and enumeration of the caller are the same after the '{'
\* was handled as before, no step of the nested invocation changes a frame
\* below it, and the return to the caller changes none of them.
C21_CallerContextKept ==
  /\ [][StartsAggregateBody => Context(stack'[Len(stack)]) = Context(Top)]_vars
  /\ [][(stack # <<>> /\ Len(stack') >= Len(stack)) =>
          SubSeq(stack', 1, Len(stack) - 1) = SubSeq(stack, 1, Len(stack) - 1)]_vars
  /\ [][ReturnsFromBody => Context(After) = Context(stack[Len(stack) - 1])]_vars

\* a struct body inside a class body was scanned and the class scan goes on with
\* its scope and its pending variable
C21_Witness ==
  /\ Len(stack) = 2 /\ Top.pc = "run"
  /\ call.op = "scan_file" /\ call.element = "struct" /\ call.result = 0
  /\ Top.scope = <<Str("public")>> /\ Top.variable # NULL

\* the characters of the single-character cases of STATE_NONE that the
\* declarations are assembled from
Structural == {"{", "}", "(", ")", ";", ":", "*", ",", "&", "+", "-", "="}

\* the step reads a structural character in the no-token or identifier state
ReadsStructural ==
  /\ Running /\ Top.state \in {"NONE", "IDENTIFIER"}
  /\ pos <= Len(input) /\ input[pos] \in Structural

\* the invocation that read the character, after the step
Reader == stack'[Len(stack)]

\* the step put the character it read at the end of the identifier buffer
Buffered ==
  /\ Reader.state = "IDENTIFIER" /\ Reader.buffer # <<>>
  /\ Reader.buffer[Len(Reader.buffer)] = input[pos]
  /\ Top.state = "NONE" \/ Len(Reader.buffer) = Len(Top.buffer) + 1

\* ',' continues the identifier being read
CommaJoins ==
  \/ Top.parens > 1
  \/ Top.type # NULL /\ Top.enumeration = NULL /\ Top.function = NULL

\* C22 as stated: no step that reads one of the structural characters in the
\* no-token state or in the identifier state appends it to the identifier buffer.
C22_NeverBuffered ==
  [][ReadsStructural => ~Buffered]_vars

\* C22: in the no-token state a structural character never starts an identifier;
\* in the identifier state ':' is appended to the identifier, ',' is appended
\* when the paren depth is above 1 or a type is open with no enumeration and no
\* function pending, and every other structural character ends the identifier,
\* is pushed back and is not appended.
C22_StructuralEvents ==
  [][ReadsStructural =>
       IF Top.state = "NONE" THEN Reader.state = "NONE"
       ELSE IF input[pos] = ":" \/ (input[pos] = "," /\ CommaJoins)
       THEN /\ Reader.state = "IDENTIFIER" /\ pos' = pos + 1
            /\ Reader.buffer = IF HasRoom(Top.buffer) THEN Append(Top.buffer, input[pos])
                               ELSE Top.buffer
       ELSE Reader.state = "NONE" /\ pos' = pos /\ ~Buffered]_vars

\* an identifier that holds ',' is being read and a structural character that
\* ends it comes next
C22_Witness ==
  /\ Running /\ Top.state = "IDENTIFIER" /\ pos <= Len(input)
  /\ \E i \in 1..Len(Top.buffer) : Top.buffer[i] = ","
  /\ input[pos] \in Structural \ {":", ","}

\* the step reads a '{' in state STATE_NONE that opens neither a pending function,
\* an aggregate, an enumeration nor an extern block
ReadsPlainBrace ==
  /\ Running /\ Top.state = "NONE" /\ pos <= Len(input) /\ input[pos] = "{"
  /\ Top.function = NULL
  /\ ~StartsAggregate(nodes, Top.type) /\ ~StartsEnumeration(nodes, Top.type)
  /\ ~StartsExtern(nodes, Top.type)

\* the step is taken inside braces with no enumeration pending
InsideBraces == Running /\ Top.braces > 0 /\ Top.enumeration = NULL

\* the step creates no element and leaves every node of the document as it is
NothingRecorded ==
  /\ Len(nodes') = Len(nodes)
  /\ \A n \in 1..Len(nodes) : InDocument(n) => nodes'[n] = nodes[n]

AroundNamespace == Str("typedef int a; namespace N { /* c */ int x; } int y;")

\* C23: a '{' that opens nothing the scanner knows discards the pending type and
\* adds one to the brace depth; no step taken inside braces with no enumeration
\* pending creates a node or changes the document; and the declaration after the
\* matching '}' is recorded, so that 'typedef int a; namespace N { ... } int y;'
\* gives typedef a without a description and variable y.
C23_BracesSkipped ==
  /\ [][ReadsPlainBrace =>
          /\ After.type = NULL /\ After.braces = Top.braces + 1
          /\ Top.type # NULL => nodes'[Top.type].freed]_vars
  /\ [][InsideBraces => NothingRecorded]_vars
  /\ []((Finished /\ input = AroundNamespace) =>
          /\ \E n \in ElementsOf(Root, "variable") : HasName(n, Str("y"))
          /\ \A n \in ElementsOf(Root, "typedef") : ElementsOf(n, "description") = {})

\* the step ends an identifier read outside all braces
EndsIdentifierOutside ==
  /\ Running /\ Top.state = "IDENTIFIER" /\ Top.braces = 0
  /\ Len(stack') = Len(stack) /\ After.state = "NONE"

\* the type sequence that is open starts with word
TypeStartsWith(word) ==
  /\ Top.type # NULL /\ nodes[Top.type].texts # <<>>
  /\ FirstString(nodes, Top.type) = Str(word)

\* the elements of one kind the step creates
Created(elem) == {n \in (Len(nodes) + 1)..Len(nodes') : nodes'[n].elem = elem}

\* the scan root is the document
AtTopLevel == nodes[Top.tree].elem = "mxmldoc"

StaticProgram ==
  Str("static int x; static int f(int a) {} extern int g(void); class C { static int n; static void m(void); };")

\* C24: at the document root the identifier before '(' creates no function when
\* the type sequence starts with extern or static, and no identifier creates a
\* variable when the type sequence starts with static; in the body of a class the
\* static members are recorded.
C24_StaticExternDropped ==
  /\ [][( /\ EndsIdentifierOutside /\ AtTopLevel
          /\ Top.function = NULL /\ input[pos] = "("
          /\ TypeStartsWith("extern") \/ TypeStartsWith("static") ) =>
          /\ Created("function") = {} /\ After.function = NULL
          /\ nodes'[Top.type].freed /\ After.type = NULL]_vars
  /\ [][(EndsIdentifierOutside /\ AtTopLevel /\ TypeStartsWith("static")) =>
          Created("variable") = {} /\ After.variable = Top.variable]_vars
  /\ []((Finished /\ input = StaticProgram) =>
          /\ ElementsOf(Root, "function") = {} /\ ElementsOf(Root, "variable") = {}
          /\ \E c \in ElementsOf(Root, "class") :
               /\ \E n \in ElementsOf(c, "variable") : HasName(n, Str("n"))
               /\ \E n \in ElementsOf(c, "function") : HasName(n, Str("m")))

\* static and extern declarations were scanned at the document root and static
\* members in a class body
C24_Witness ==
  /\ Finished /\ input = StaticProgram
  /\ \E c \in ElementsOf(Root, "class") :
       \E n \in ElementsOf(c, "function") : HasName(n, Str("m"))

\* the direction words a comment can begin with
DirectionWords == {Str("I"), Str("O"), Str("IO")}

\* the comment text b begins with the direction word w and a blank
BeginsWith(b, w) ==
  Len(b) > Len(w) /\ SubSeq(b, 1, Len(w)) = w /\ b[Len(w) + 1] = " "

Marked(b) == \E w \in DirectionWords : BeginsWith(b, w)

WordOf(b) == CHOOSE w \in DirectionWords : BeginsWith(b, w)

\* s without its leading whitespace, and without one leading '-'
DropSpaces(s) ==
  LET k == CHOOSE k \in 1..(Len(s) + 1) :
             /\ \A i \in 1..(k - 1) : IsSpace(s[i])
             /\ k <= Len(s) => ~IsSpace(s[k])
  IN  SubSeq(s, k, Len(s))

DropDash(s) == IF s # <<>> /\ s[1] = "-" THEN Tail(s) ELSE s

\* the comment text b without the direction word, the '-' and the whitespace
Described(b) ==
  DropSpaces(DropDash(DropSpaces(SubSeq(b, Len(WordOf(b)) + 1, Len(b)))))

\* the node a completed comment is attached to: the first pending slot
Target ==
  IF Top.variable # NULL THEN Top.variable
  ELSE IF Top.constant # NULL THEN Top.constant
  ELSE Top.typedefnode

\* the strings of the descriptions the step creates under node n
NewDescriptions(n) ==
  {nodes'[d].texts : d \in {c \in Created("description") : nodes'[c].parent = n}}

BufferArgument == Str("void f(char *buf, /* IO - the buffer */ int n) /* I -  count */ {}")

ThinkSo == Str("/* I think so */ void g(void) {}")

\* C25: a comment that begins with 'I ', 'O ' or 'IO ' and is attached to a
\* pending node gives the node a description whose text is the comment without
\* that word, the '-' and the whitespace around it, whatever kind the node is,
\* and gives it the direction attribute with that word when and only when the
\* node is an argument; no other node ever has a direction; 'IO - the buffer'
\* gives argument buf direction IO and description 'the buffer', and the comment
\* 'I think so' before function g describes g as 'think so'.
C25_DirectionPrefix ==
  /\ [][(Completes /\ Marked(After.buffer) /\ Target # NULL) =>
          /\ NewDescriptions(Target) = {<<Text(FALSE, Described(After.buffer))>>}
          /\ IF nodes[Target].elem = "argument"
             THEN /\ HasAttr(nodes', Target, "direction")
                  /\ GetAttr(nodes', Target, "direction") = WordOf(After.buffer)
             ELSE ~HasAttr(nodes', Target, "direction")]_vars
  /\ [](\A n \in 1..Len(nodes) :
          HasAttr(nodes, n, "direction") => nodes[n].elem = "argument")
  /\ []((Finished /\ input = BufferArgument) =>
          \E g \in ElementsOf(Root, "function") : \E a \in ElementsOf(g, "argument") :
            /\ HasName(a, Str("buf")) /\ GetAttr(nodes, a, "direction") = Str("IO")
            /\ DescriptionsIn(a) = {<<Str("the buffer")>>})
  /\ []((Finished /\ input = ThinkSo) =>
          \E g \in ElementsOf(Root, "function") :
            DescriptionsIn(g) = {<<Str("think so")>>})

\* the arguments of f were scanned with their comments: buf is described and has
\* direction IO, n has direction I
C25_Witness ==
  /\ Finished /\ input = BufferArgument
  /\ \E g \in ElementsOf(Root, "function") : \E a \in ElementsOf(g, "argument") :
       HasName(a, Str("n")) /\ HasAttr(nodes, a, "direction")
         /\ GetAttr(nodes, a, "direction") = Str("I")

\* the scan stopped at a read through NULL or a write past the buffer
Faulted == stack # <<>> /\ Top.pc = "fault"

\* the step is one iteration of the main loop of scan_file
Iterates == Running /\ pos <= Len(input)

\* the states of the scanner
ScannerStates ==
  {"NONE", "PREPROCESSOR", "C_COMMENT", "CXX_COMMENT", "STRING", "CHARACTER",
   "IDENTIFIER"}

\* the invocation that runs can take its next step: an iteration of the main
\* loop, the end of the loop at EOF, or its return
CanStep ==
  \/ Top.pc = "return"
  \/ Top.pc = "run" /\ (pos > Len(input) \/ Top.state \in ScannerStates)

\* C26: every scan ends. No iteration of the main loop moves the read position
\* back, every iteration in the no-token state moves it forward, and the only
\* iteration that leaves it where it was is the one that ends an identifier,
\* pushes the ending character back and goes to the no-token state, where the
\* character is consumed; a scan that has neither returned to main nor stopped at
\* a fault can take a step; and no scan takes steps for ever: from some point on
\* nothing changes any more.
C26_Terminates ==
  /\ [][Iterates =>
          /\ pos' >= pos
          /\ Top.state = "NONE" => pos' > pos
          /\ pos' = pos => (Top.state = "IDENTIFIER" /\ Reader.state = "NONE")]_vars
  /\ []((~Finished /\ ~Faulted) => CanStep)
  /\ <>[][FALSE]_vars

\* an identifier was ended by a structural character that was pushed back and
\* is read next in the no-token state
C26_Witness ==
  /\ Running /\ Top.state = "NONE" /\ 1 < pos /\ pos <= Len(input)
  /\ IsAlnum(input[pos - 1]) /\ input[pos] \in Structural

\* the step appends to the token buffer of the invocation that runs
Appends ==
  /\ Running /\ pos <= Len(input) /\ Reader.state = Top.state
  /\ Top.state \in ScannerStates \ {"NONE", "PREPROCESSOR"}
  /\ Len(Reader.buffer) > Len(Top.buffer)

\* C27: in the identifier, comment, string and character states a character is
\* appended to the token buffer only while the write position is at most
\* sizeof(buffer) - 2, so the write position never exceeds sizeof(buffer) - 1 and
\* no scan writes past the end of the buffer.
C27_BufferBounded ==
  /\ [][Appends => Len(Top.buffer) <= BufSize - 2]_vars
  /\ [](\A i \in 1..Len(stack) : Len(stack[i].buffer) <= BufSize - 1)
  /\ [](Faulted => Top.state \notin {"STRING", "CHARACTER"})

\* the nodes the pending slots of invocation f refer to
PendingNodes(f) ==
  {f.function, f.variable, f.constant, f.enumeration, f.typedefnode, f.structclass,
   f.fstructclass} \ {NULL}

\* C28: in every state of a scan no pending slot of any invocation (function,
\* variable, constant, enumeration, typedef, struct or class, target of a
\* qualified function) refers to a node that has been deleted.
C28_NoDanglingSlot ==
  \A i \in 1..Len(stack) : \A n \in PendingNodes(stack[i]) : ~nodes[n].freed

\* the step reads one of the operator characters in state STATE_NONE
ReadsOperator ==
  /\ Running /\ Top.state = "NONE" /\ pos <= Len(input)
  /\ input[pos] \in {"/", "*", "+", "-", "="}

\* the variables and arguments the step creates with add_variable
Added == Created("variable") \cup Created("argument")

\* C29: a type sequence that is open holds at least one fragment, in particular
\* when '/', '*', '+', '-' or '=' is read and when add_variable is called; the
\* fragments add_variable has left after it cut off the default value are never
\* none, so that every variable and argument it creates gets a name from them.
C29_TypeHasFragment ==
  /\ [](\A i \in 1..Len(stack) :
          stack[i].type # NULL => nodes[stack[i].type].texts # <<>>)
  /\ [][(ReadsOperator /\ Top.type # NULL) => nodes[Top.type].texts # <<>>]_vars
  /\ [][\A n \in Added :
          HasAttr(nodes', n, "name") /\ GetAttr(nodes', n, "name") # <<>>]_vars
  /\ []((Faulted /\ Top.type # NULL) =>
          TypeWithoutDefault(nodes[Top.type].texts) # <<>>)

\* a variable with a default value was recorded, its name taken from the
\* fragments before the '='
C29_Witness ==
  /\ Finished
  /\ \E n \in 1..Len(nodes) :
       /\ nodes[n].elem \in {"variable", "argument"} /\ InDocument(n)
       /\ HasAttr(nodes, n, "default") /\ HasName(n, Str("x"))

\* the step ends an identifier read inside braces while an enumeration is pending
EndsIdentifierInEnum ==
  /\ Running /\ Top.state = "IDENTIFIER"
  /\ Top.braces > 0 /\ Top.enumeration # NULL
  /\ Len(stack') = Len(stack) /\ After.state = "NONE"

\* the step creates one constant named by the identifier, which becomes the
\* pending constant and has this parent; the constants of the enumeration are
\* then in name order with no name twice
ConstantUnder(parent) ==
  /\ Created("constant") = {After.constant}
  /\ GetAttr(nodes', After.constant, "name") = Top.buffer
  /\ nodes'[After.constant].parent = parent
  /\ (NoDuplicates(nodes[Top.enumeration].children))'
  /\ (NamesInOrder(nodes[Top.enumeration].children))'

NoConstant == Created("constant") = {} /\ After.constant = Top.constant

\* C30 as stated: every identifier that does not begin with a digit, completed
\* inside braces while an enumeration is pending, becomes a constant child of the
\* enumeration, sorted in and replacing a constant of the same name, and the
\* pending constant; one that begins with a digit creates no constant.
C30_EveryIdentifierInserted ==
  [][EndsIdentifierInEnum =>
       IF IsDigit(FirstChar(Top.buffer)) THEN NoConstant
       ELSE ConstantUnder(Top.enumeration)]_vars

\* C30: every identifier that does not begin with a digit, completed inside
\* braces while an enumeration is pending, creates a constant that becomes the
\* pending constant; the constant is sorted in as a child of the enumeration,
\* replacing a constant of the same name, unless its name begins with '_', when it
\* stays outside the tree; an identifier that begins with a digit creates no
\* constant.
C30_ConstantsInserted ==
  [][EndsIdentifierInEnum =>
       IF IsDigit(FirstChar(Top.buffer)) THEN NoConstant
       ELSE IF FirstChar(Top.buffer) = "_" THEN ConstantUnder(NULL)
       ELSE ConstantUnder(Top.enumeration)]_vars

\* a constant was inserted in place of an earlier one of the same name, after a
\* constant whose name begins with '_' was left out
C30_Witness ==
  /\ Running /\ Top.constant # NULL /\ Top.enumeration # NULL
  /\ nodes[Top.constant].parent = Top.enumeration
  /\ \E n \in 1..Len(nodes) :
       /\ nodes[n].elem = "constant" /\ nodes[n].freed
       /\ GetAttr(nodes, n, "name") = NameOf(Top.constant)
  /\ \E n \in 1..Len(nodes) :
       /\ nodes[n].elem = "constant" /\ ~nodes[n].freed /\ nodes[n].parent = NULL
       /\ FirstChar(GetAttr(nodes, n, "name")) = "_"

====
